---- MODULE Spec2Model ----
(***************************************************************************)
(* A model of the vrain_rs typesetting compiler: the page grid built by    *)
(* Layout::build, the line padding of process_text, the character walker   *)
(* of LayoutEngine::process_entry with its annotation layout, and the      *)
(* chapter loop of Typesetter::build_plan.                                 *)
(*                                                                         *)
(* Characters are one-character strings.  Coordinates are integers: the    *)
(* canvas sizes below make every column width and row height of the        *)
(* modelled geometries a whole number, so the f32 arithmetic of the source *)
(* is exact on them.                                                       *)
(***************************************************************************)
EXTENDS Integers, Sequences, FiniteSets, TLC

VARIABLES
    pc,                \* position of the run: which step comes next
    cfg,               \* BookConfig, CanvasConfig, TypesetOptions, corpus shape
    layout,            \* the Layout built by Layout::build, or its error
    idx,               \* build_plan: the chapter ordinal of the loop
    chars,             \* process_entry: characters of the entry already drawn but not read
    budget,            \* process_entry: number of characters of the entry not yet drawn
    pcnt,              \* the slot counter
    next_page_number,  \* build_plan: next_page_number
    generated_pages,   \* build_plan: generated_pages
    bookline_active,   \* build_plan: bookline_active
    last_pos,          \* process_entry: last_pos (None or a Cell)
    current_page,      \* build_plan: current_page (a PagePlan)
    pages,             \* build_plan: pages (sequence of PagePlan)
    outlines,          \* build_plan: outlines (sequence of OutlineEntry)
    result,            \* what build_plan, process_text or Layout::build returned
    ev                 \* what the last step did (its operation and inputs)

vars == <<pc, cfg, layout, idx, chars, budget, pcnt, next_page_number,
          generated_pages, bookline_active, last_pos, current_page, pages,
          outlines, result, ev>>

None == "None"

\* Option values of the model: a cell, a glyph, a corpus entry and a result that
\* are not there
NoCell == [x |-> -1, y |-> -1]

NoGlyph == [ch |-> None, font_idx |-> 0, pos |-> NoCell, is_comment |-> FALSE,
            is_nop |-> FALSE, is_rot |-> FALSE]

NoEntry == [data |-> <<>>, more |-> -1]

NoResult == [ok |-> FALSE, err |-> "pending", at |-> 0]

(***************************************************************************)
(* Bounds of the model.                                                    *)
(***************************************************************************)
MaxColumns == 2        \* leaf_col of the runs ranges over 1..MaxColumns
MaxRowNum == 2         \* row_num of the runs ranges over 1..MaxRowNum
MaxItems == 3          \* items (characters, annotation blocks) of one corpus
MaxChapter == 2        \* the highest chapter ordinal of the corpus
MaxTestPages == 1      \* the page cap is absent or in 0..MaxTestPages
MaxNoteLen == 3        \* characters one drawn annotation block holds at most

(***************************************************************************)
(* Small helpers on sequences and numbers.                                 *)
(***************************************************************************)
Min(a, b) == IF a <= b THEN a ELSE b

Max(a, b) == IF a >= b THEN a ELSE b

\* usize::saturating_sub
SatSub(a, b) == IF a >= b THEN a - b ELSE 0

RECURSIVE Flatten(_)
Flatten(ss) == IF ss = <<>> THEN <<>> ELSE Head(ss) \o Flatten(Tail(ss))

RECURSIVE SumSeq(_)
SumSeq(s) == IF s = <<>> THEN 0 ELSE Head(s) + SumSeq(Tail(s))

Repeat(c, n) == [i \in 1..n |-> c]

CeilHalf(n) == (n + 1) \div 2

(***************************************************************************)
(* layout.rs: the page grid.                                               *)
(***************************************************************************)
\* MultiRowsMode (plan.rs / multirows.rs): Disabled, HorizontalLeaf{rows},
\* HorizontalPage{rows}
Disabled == [kind |-> "Disabled", rows |-> 1]

HorizontalLeaf(rows) == [kind |-> "HorizontalLeaf", rows |-> rows]

HorizontalPage(rows) == [kind |-> "HorizontalPage", rows |-> rows]

\* Cell { x, y }
Cell(x, y) == [x |-> x, y |-> y]

\* The CanvasConfig fields Layout::build reads.  The inner width and height
\* (canvas minus margins minus gutter) are 1680, which 1..8 divide into even
\* numbers.
Canvas(leaf_col, leaf_center_width) ==
    [canvas_width |-> 1680 + 100 + 60 + leaf_center_width,
     canvas_height |-> 1680 + 80 + 40,
     margins_top |-> 80, margins_bottom |-> 40,
     margins_left |-> 100, margins_right |-> 60,
     leaf_col |-> leaf_col, leaf_center_width |-> leaf_center_width]

\* cw of Layout::build
ColumnWidth(canvas) ==
    (canvas.canvas_width - canvas.margins_left - canvas.margins_right
        - canvas.leaf_center_width) \div canvas.leaf_col

\* rh of Layout::build
RowHeight(canvas, row_num) ==
    (canvas.canvas_height - canvas.margins_top - canvas.margins_bottom) \div row_num

\* base_x of column i, in the Disabled and HorizontalLeaf arms: the gutter is
\* subtracted past the half-way column
BaseX(canvas, i) ==
    IF 2 * i <= canvas.leaf_col
    THEN canvas.canvas_width - canvas.margins_right - ColumnWidth(canvas) * i
    ELSE canvas.canvas_width - canvas.margins_right - ColumnWidth(canvas) * i
            - canvas.leaf_center_width

\* pos_y of row j in band rid
PosY(canvas, row_num, rows_per_column, row_delta_y, rid, j) ==
    canvas.canvas_height - canvas.margins_top
        - rows_per_column * rid * RowHeight(canvas, row_num)
        - RowHeight(canvas, row_num) * j + row_delta_y

\* the inner `for j in 1..=rows_per_column` loop: the cells one column pushes
ColumnCells(canvas, row_num, rows_per_column, row_delta_y, base_x, rid) ==
    [j \in 1..rows_per_column |->
        Cell(base_x, PosY(canvas, row_num, rows_per_column, row_delta_y, rid, j))]

\* the cells pushed after the sentinel, in push order, for each mode
GridCells(canvas, row_num, rows_per_column, row_delta_y, multirows) ==
    LET col_num == canvas.leaf_col
        Col(i, rid) == ColumnCells(canvas, row_num, rows_per_column, row_delta_y,
                                   BaseX(canvas, i), rid)
        half == col_num \div 2
        RightCol(i, rid) ==
            ColumnCells(canvas, row_num, rows_per_column, row_delta_y,
                canvas.canvas_width - canvas.margins_right
                    - ColumnWidth(canvas) * i, rid)
        LeftCol(i, rid) ==
            ColumnCells(canvas, row_num, rows_per_column, row_delta_y,
                canvas.canvas_width - canvas.margins_right
                    - ColumnWidth(canvas) * i - canvas.leaf_center_width, rid)
    IN  CASE multirows.kind = "Disabled" ->
                Flatten([i \in 1..col_num |-> Col(i, 0)])
          [] multirows.kind = "HorizontalLeaf" ->
                Flatten([r \in 1..multirows.rows |->
                    Flatten([i \in 1..col_num |-> Col(i, r - 1)])])
          [] multirows.kind = "HorizontalPage" ->
                (IF half > 0
                 THEN Flatten([r \in 1..multirows.rows |->
                        Flatten([i \in 1..half |-> RightCol(i, r - 1)])])
                 ELSE <<>>)
                \o Flatten([r \in 1..multirows.rows |->
                        Flatten([k \in 1..(col_num - half) |->
                            LeftCol(half + k, r - 1)])])

\* a rows_per_column that does not divide by the band count
RowsPerColumnOfLeaf(row_num, multirows) ==
    IF multirows.kind = "Disabled" THEN row_num
    ELSE IF multirows.rows = 0 \/ row_num % multirows.rows # 0 THEN 0
    ELSE row_num

\* a rows_per_column that rejects a band count of zero only, and rounds the
\* division down
RowsPerColumnRoundedDown(row_num, multirows) ==
    IF multirows.kind = "Disabled" THEN row_num
    ELSE IF multirows.rows = 0 THEN 0
    ELSE row_num \div multirows.rows

\* rows_per_column of Layout::build (the match on multirows), 0 on error
RowsPerColumn(row_num, multirows) ==
    IF multirows.kind = "Disabled" THEN row_num
    ELSE IF multirows.rows = 0 \/ row_num % multirows.rows # 0 THEN 0
    ELSE row_num \div multirows.rows

\* Layout::build.  pos_l and pos_r are 1-indexed sequences here, so entry k of
\* the Vec is element k+1: element 1 is the sentinel pushed first.
LayoutBuild(row_num, row_delta_y, canvas, multirows) ==
    IF canvas.leaf_col = 0 \/ row_num = 0
    THEN [ok |-> FALSE, err |-> "canvas columns/row_num must be > 0"]
    ELSE IF RowsPerColumn(row_num, multirows) = 0
    THEN [ok |-> FALSE, err |-> "row_num not divisible by multirows"]
    ELSE LET rpc == RowsPerColumn(row_num, multirows)
             cells == GridCells(canvas, row_num, rpc, row_delta_y, multirows)
             cw == ColumnWidth(canvas)
         IN  [ok |-> TRUE,
              per_page |-> canvas.leaf_col * row_num,
              pos_l |-> <<Cell(0, 0)>> \o cells,
              pos_r |-> <<Cell(0, 0)>>
                            \o [k \in 1..Len(cells) |->
                                    Cell(cells[k].x + cw \div 2, cells[k].y)],
              cw |-> cw,
              rh |-> RowHeight(canvas, row_num),
              rows_per_column |-> rpc,
              columns |-> canvas.leaf_col,
              multirows_bands |-> multirows.rows]

\* Layout::pos_left / pos_right: Vec::get(idx), NoCell past the end
PosLeft(lay, i) == IF i + 1 <= Len(lay.pos_l) THEN lay.pos_l[i + 1] ELSE NoCell

PosRight(lay, i) == IF i + 1 <= Len(lay.pos_r) THEN lay.pos_r[i + 1] ELSE NoCell

(***************************************************************************)
(* Characters.  The model writes the markers of the source as ASCII        *)
(* stand-ins: "<" and ">" are the bookline brackets, "[" and "]" the       *)
(* annotation brackets, "#" the placeholder glyph, "@" the blank-slot       *)
(* marker of process_text.                                                 *)
(***************************************************************************)
PageBreak == "%"

HalfJump == "$"

BandJump == "^"

LastColumn == "&"

BookOpen == "<"

BookClose == ">"

NoteOpen == "["

NoteClose == "]"

Placeholder == "#"

(***************************************************************************)
(* fonts.rs and the glyph resolution of layout_engine.rs.                  *)
(***************************************************************************)
\* FontManager::font: slot indices are 1-based, 0 and unloaded slots hold no font (the empty set)
FontAt(c, font_idx) ==
    IF font_idx = 0 \/ font_idx > Len(c.slots) THEN {} ELSE c.slots[font_idx]

\* FontManager::has_glyph
HasGlyph(c, font_idx, ch) ==
    ch \in FontAt(c, font_idx)

\* a pick_font that goes on through the stack and keeps the last slot holding
\* the glyph
RECURSIVE PickFontLast(_, _, _)
PickFontLast(c, ch, stack) ==
    IF stack = <<>> THEN 0
    ELSE IF PickFontLast(c, ch, Tail(stack)) # 0
    THEN PickFontLast(c, ch, Tail(stack))
    ELSE IF HasGlyph(c, Head(stack), ch) THEN Head(stack)
    ELSE 0

\* FontManager::pick_font: the first slot of the stack holding the glyph
RECURSIVE PickFont(_, _, _)
PickFont(c, ch, stack) ==
    IF stack = <<>> THEN 0
    ELSE IF HasGlyph(c, Head(stack), ch) THEN Head(stack)
    ELSE PickFont(c, ch, Tail(stack))

\* zhconv(ch, variant): the conversion table of the model.  "j" is a
\* Simplified form whose Traditional form is "f"; "v" is a variant form whose
\* Traditional form is "f" and whose Simplified form is "j"; every other
\* character is its own conversion.
Zhconv(ch, variant) ==
    IF variant = "ZhHant" /\ ch \in {"j", "v"} THEN "f"
    ELSE IF variant = "ZhHans" /\ ch \in {"f", "v"} THEN "j"
    ELSE ch

\* LayoutEngine::try_convert_char: <<candidate, slot>>, slot 0 for None
TryConvertChar(c, ch, variant, stack) ==
    LET candidate == Zhconv(ch, variant)
    IN  IF candidate = ch THEN <<ch, 0>>
        ELSE IF PickFont(c, candidate, stack) = 0 THEN <<ch, 0>>
        ELSE <<candidate, PickFont(c, candidate, stack)>>

\* a pick_with_try_st that tries the Simplified conversion first
PickWithTryStHansFirst(c, ch, stack) ==
    IF PickFont(c, ch, stack) # 0 THEN <<ch, PickFont(c, ch, stack)>>
    ELSE IF ~c.try_st THEN <<ch, 0>>
    ELSE IF TryConvertChar(c, ch, "ZhHans", stack)[2] # 0
    THEN TryConvertChar(c, ch, "ZhHans", stack)
    ELSE IF TryConvertChar(c, ch, "ZhHant", stack)[2] # 0
    THEN TryConvertChar(c, ch, "ZhHant", stack)
    ELSE <<ch, 0>>

\* LayoutEngine::pick_with_try_st: <<character, slot>>, slot 0 for None
PickWithTrySt(c, ch, stack) ==
    IF PickFont(c, ch, stack) # 0 THEN <<ch, PickFont(c, ch, stack)>>
    ELSE IF ~c.try_st THEN <<ch, 0>>
    ELSE IF TryConvertChar(c, ch, "ZhHant", stack)[2] # 0
    THEN TryConvertChar(c, ch, "ZhHant", stack)
    ELSE IF TryConvertChar(c, ch, "ZhHans", stack)[2] # 0
    THEN TryConvertChar(c, ch, "ZhHans", stack)
    ELSE <<ch, 0>>

\* LayoutEngine::build_text_glyph: NoGlyph, or the GlyphSpec.  The GlyphSpec of
\* the model keeps the character drawn, the font slot, the grid cell it was
\* computed from and the three flags that select size, offsets and rotation.
BuildTextGlyph(c, pos, ch, is_comment, is_nop, is_rot) ==
    LET stack == IF is_comment THEN c.comment_stack ELSE c.text_stack
        first == PickWithTrySt(c, ch, stack)
        pick == IF first[2] # 0 THEN first
                ELSE <<Placeholder, PickFont(c, Placeholder, stack)>>
    IN  IF pick[2] = 0 THEN NoGlyph
        ELSE [ch |-> pick[1], font_idx |-> pick[2], pos |-> pos,
              is_comment |-> is_comment, is_nop |-> is_nop, is_rot |-> is_rot]

\* the LineSpec pushed for a glyph under an active bookline
BookLine(pos) == [pos |-> pos, wavy |-> TRUE]


(***************************************************************************)
(* numerals.rs and the running title of typesetter.rs.                     *)
(***************************************************************************)
\* a fallback_digits that leaves the digits in the order the loop pushes them,
\* least significant first
RECURSIVE FallbackDigitsLeastFirst(_)
FallbackDigitsLeastFirst(num) ==
    LET digits == <<"d0", "d1", "d2", "d3", "d4", "d5", "d6", "d7", "d8", "d9">>
    IN  IF num = 0 THEN <<"d0">>
        ELSE IF num < 10 THEN <<digits[num + 1]>>
        ELSE <<digits[(num % 10) + 1]>> \o FallbackDigitsLeastFirst(num \div 10)

\* fallback_digits: one symbol per decimal digit, most significant first
RECURSIVE FallbackDigits(_)
FallbackDigits(num) ==
    LET digits == <<"d0", "d1", "d2", "d3", "d4", "d5", "d6", "d7", "d8", "d9">>
    IN  IF num = 0 THEN <<"d0">>
        ELSE IF num < 10 THEN <<digits[num + 1]>>
        ELSE FallbackDigits(num \div 10) \o <<digits[(num % 10) + 1]>>

\* NumeralMap::render: the table entry, else the digit substitution
NumeralRender(c, num) ==
    IF num \in DOMAIN c.numerals THEN c.numerals[num] ELSE FallbackDigits(num)

\* TextCorpus::total_entries: the highest ordinal holding an entry, else 0
TotalEntries(c) ==
    LET present == {i \in DOMAIN c.entries : c.entries[i] # NoEntry}
    IN  IF present = {} THEN 0
        ELSE CHOOSE i \in present : \A k \in present : k <= i

\* String::replace('X', zh) on the postfix pattern
RECURSIVE ReplaceX(_, _)
ReplaceX(pattern, zh) ==
    IF pattern = <<>> THEN <<>>
    ELSE (IF Head(pattern) = "X" THEN zh ELSE <<Head(pattern)>>)
            \o ReplaceX(Tail(pattern), zh)

\* a compute_entry_title that numbers the chapters by their ordinal, prologue
\* or not
ComputeEntryTitleByOrdinal(c, i) ==
    IF c.postfix = <<>> THEN c.title
    ELSE c.title \o
         (IF i = 0 THEN <<"preface">>
          ELSE IF c.has_text999 /\ i = TotalEntries(c) THEN <<"appendix">>
          ELSE ReplaceX(c.postfix[1], NumeralRender(c, i)))

\* Typesetter::compute_entry_title: the title as a sequence of characters
ComputeEntryTitle(c, i) ==
    IF c.postfix = <<>> THEN c.title
    ELSE LET cid == IF c.has_text000 THEN SatSub(i, 1) ELSE i
         IN  c.title \o
             (IF cid = 0 THEN <<"preface">>
              ELSE IF c.has_text999 /\ i = TotalEntries(c) THEN <<"appendix">>
              ELSE ReplaceX(c.postfix[1], NumeralRender(c, cid)))

(***************************************************************************)
(* The cursor of the engine: the values process_entry receives by mutable  *)
(* reference, as one record for the operators that model its helpers.      *)
(* A PagePlan of the model keeps the number of its glyphs and of its lines; *)
(* the glyphs and lines themselves are kept, for the step that pushes them *)
(* on the page, in the fields emitted and drawn of the cursor, which ev    *)
(* holds until the next step.                                              *)
(***************************************************************************)
Cursor == [pcnt |-> pcnt, next_page_number |-> next_page_number,
           generated_pages |-> generated_pages,
           current_page |-> current_page, pages |-> pages,
           emitted |-> <<>>, drawn |-> <<>>]

\* a PagePlan
PagePlan(number, title, glyphs, lines) ==
    [number |-> number, title |-> title, glyphs |-> glyphs, lines |-> lines]

\* current_page.glyphs.push(glyph), when a glyph resolved
PushGlyph(st, g) ==
    IF g = NoGlyph THEN st
    ELSE [st EXCEPT !.current_page.glyphs = @ + 1,
                    !.emitted = Append(@, [glyph |-> g,
                                           page |-> st.current_page.number])]

\* current_page.lines.push(LineSpec) for the glyph at pos
PushLine(st, pos) ==
    [st EXCEPT !.current_page.lines = @ + 1,
               !.drawn = Append(@, [line |-> BookLine(pos),
                                    page |-> st.current_page.number])]

\* a reached_limit that needs the count to pass the cap
ReachedLimitStrict(c, generated) ==
    IF c.test_pages = <<>> THEN FALSE ELSE generated > c.test_pages[1]

\* LayoutEngine::reached_limit and Typesetter::reached_limit
ReachedLimit(c, generated) ==
    IF c.test_pages = <<>> THEN FALSE ELSE generated >= c.test_pages[1]

\* a finalize_page that pushes the in-progress page whether or not it holds
\* a glyph
FinalizePagePushingEmpty(st, title_text) ==
    [st EXCEPT
        !.pages = Append(st.pages, st.current_page),
        !.generated_pages = st.generated_pages + 1,
        !.pcnt = 0,
        !.next_page_number = st.next_page_number + 1,
        !.current_page = PagePlan(st.next_page_number + 1, title_text, 0,
                                  st.current_page.lines)]

\* a finalize_page that bumps the counter and leaves the in-progress page its
\* number
FinalizePageAtSameNumber(st, title_text) ==
    [st EXCEPT
        !.pages = IF st.current_page.glyphs # 0
                  THEN Append(st.pages, st.current_page) ELSE st.pages,
        !.generated_pages = IF st.current_page.glyphs # 0
                            THEN st.generated_pages + 1 ELSE st.generated_pages,
        !.pcnt = 0,
        !.next_page_number = st.next_page_number + 1,
        !.current_page = PagePlan(st.current_page.number, title_text, 0,
                                  st.current_page.lines)]

\* LayoutEngine::finalize_page
FinalizePage(st, title_text) ==
    [st EXCEPT
        !.pages = IF st.current_page.glyphs # 0
                  THEN Append(st.pages, st.current_page) ELSE st.pages,
        !.generated_pages = IF st.current_page.glyphs # 0
                            THEN st.generated_pages + 1 ELSE st.generated_pages,
        !.pcnt = 0,
        !.next_page_number = st.next_page_number + 1,
        !.current_page = PagePlan(st.next_page_number + 1, title_text, 0,
                                  st.current_page.lines)]

(***************************************************************************)
(* The character stream of an entry.  `chars` holds the characters already *)
(* known and not yet read; beyond them the entry may hold up to `budget`   *)
(* further items, each any character of the corpus alphabet or one         *)
(* annotation block, and may end before any of them: a text of the corpus  *)
(* is drawn as it is read.                                                 *)
(***************************************************************************)
Stream == [chars |-> chars, budget |-> budget]

StreamOf(cs, n) == [chars |-> cs, budget |-> n]

\* the characters chars.next() can return
NextChars(s) ==
    IF s.chars # <<>> THEN {Head(s.chars)}
    ELSE IF s.budget > 0 THEN cfg.alphabet
    ELSE {}

\* a chars.next() that leaves the character it returned in the stream
RestKeeping(s) == s

\* the stream after the one character NextChars offered was read
Rest(s) ==
    IF s.chars # <<>> THEN StreamOf(Tail(s.chars), s.budget)
    ELSE StreamOf(<<>>, s.budget - 1)

\* the streams n further calls of chars.next() can leave: the n characters
\* are gone, or the stream ended before
Drops(s, n) ==
    IF n <= Len(s.chars)
    THEN {StreamOf(SubSeq(s.chars, n + 1, Len(s.chars)), s.budget)}
    ELSE {StreamOf(<<>>, 0)}
         \cup (IF s.budget >= n - Len(s.chars)
               THEN {StreamOf(<<>>, s.budget - (n - Len(s.chars)))} ELSE {})

\* a skip_row_padding that discards nothing
SkipRowPaddingOfNone(c, s) == {s}

\* LayoutEngine::skip_row_padding
SkipRowPadding(c, s) ==
    IF c.row_num = 0 THEN {s} ELSE Drops(s, SatSub(c.row_num, 1))

(***************************************************************************)
(* layout_engine.rs: the annotation layout (render_comments).              *)
(***************************************************************************)
\* LayoutEngine::should_skip_bookline_char
ShouldSkipBooklineChar(c, ch) ==
    c.book_line_flag /\ (ch = BookOpen \/ ch = BookClose)

\* LayoutEngine::comment_char_consumes_slot
CommentCharConsumesSlot(c, ch) ==
    IF ShouldSkipBooklineChar(c, ch) THEN FALSE ELSE ch \notin c.comment_nop

\* the number of slot-consuming characters of an annotation queue
RECURSIVE ConsumingCount(_, _)
ConsumingCount(c, queue) ==
    IF queue = <<>> THEN 0
    ELSE (IF CommentCharConsumesSlot(c, Head(queue)) THEN 1 ELSE 0)
            + ConsumingCount(c, Tail(queue))

\* LayoutEngine::count_comment_slots
CountCommentSlots(c, queue) == (ConsumingCount(c, queue) + 1) \div 2

\* a pull that drops the character after the last one it takes
RECURSIVE PullLocalDroppingNext(_, _, _, _)
PullLocalDroppingNext(c, local, remaining, needed_chars) ==
    IF remaining = <<>> THEN <<local, remaining>>
    ELSE LET ch == Head(remaining)
             needed == IF CommentCharConsumesSlot(c, ch)
                       THEN SatSub(needed_chars, 1) ELSE needed_chars
         IN  IF needed = 0 \/ Tail(remaining) = <<>>
             THEN <<Append(local, ch),
                    IF Tail(remaining) = <<>> THEN <<>> ELSE Tail(Tail(remaining))>>
             ELSE PullLocalDroppingNext(c, Append(local, ch), Tail(remaining), needed)

\* the loop that pulls local_chars off the queue (lines 307-317):
\* <<local_chars, remaining>>
RECURSIVE PullLocal(_, _, _, _)
PullLocal(c, local, remaining, needed_chars) ==
    IF remaining = <<>> THEN <<local, remaining>>
    ELSE LET ch == Head(remaining)
             needed == IF CommentCharConsumesSlot(c, ch)
                       THEN SatSub(needed_chars, 1) ELSE needed_chars
         IN  IF needed = 0 \/ Tail(remaining) = <<>>
             THEN <<Append(local, ch), Tail(remaining)>>
             ELSE PullLocal(c, Append(local, ch), Tail(remaining), needed)

\* positions fetched from the main table first
StepPositionsLeftFirst(lay, slot, take_pairs) ==
    IF \E offset \in 1..take_pairs :
            PosRight(lay, slot + offset) = NoCell \/ PosLeft(lay, slot + offset) = NoCell
    THEN <<>>
    ELSE [k \in 1..(2 * take_pairs) |->
            IF k <= take_pairs
            THEN [pos |-> PosLeft(lay, slot + k), index |-> slot + k, side |-> "left"]
            ELSE [pos |-> PosRight(lay, slot + k - take_pairs),
                  index |-> slot + k - take_pairs, side |-> "right"]]

\* the positions of one packing step (lines 319-357): take_pairs cells of the
\* annotation-right table, then take_pairs of the main table; <<>> when the
\* table has no such entry
StepPositions(lay, slot, take_pairs) ==
    IF \E offset \in 1..take_pairs :
            PosRight(lay, slot + offset) = NoCell \/ PosLeft(lay, slot + offset) = NoCell
    THEN <<>>
    ELSE [k \in 1..(2 * take_pairs) |->
            IF k <= take_pairs
            THEN [pos |-> PosRight(lay, slot + k), index |-> slot + k, side |-> "right"]
            ELSE [pos |-> PosLeft(lay, slot + k - take_pairs),
                  index |-> slot + k - take_pairs, side |-> "left"]]

\* the drain of a queue holding no slot-consuming character (lines 279-290):
\* the cursor after it
RECURSIVE DrainMarks(_, _, _, _)
DrainMarks(c, remaining, last, st) ==
    IF remaining = <<>> THEN st
    ELSE LET ch == Head(remaining)
         IN  IF ShouldSkipBooklineChar(c, ch) \/ last = NoCell
                    \/ ch \notin c.comment_nop
             THEN DrainMarks(c, Tail(remaining), last, st)
             ELSE DrainMarks(c, Tail(remaining), last,
                    PushGlyph(st, BuildTextGlyph(c, last, ch, TRUE, TRUE, FALSE)))

\* the walk over local_chars (lines 363-417).  w carries the cursor,
\* comment_bookline_active, last_pos, comment_last_slot,
\* non_nop_count, the placements made and, when pos_iter runs dry, the
\* characters pushed back on the queue.
RECURSIVE WalkLocal(_, _, _, _, _)
WalkLocal(c, local, i, positions, w) ==
    IF i > Len(local) THEN w
    ELSE LET ch == local[i]
         IN  IF c.book_line_flag /\ ch = BookOpen
             THEN WalkLocal(c, local, i + 1, positions, [w EXCEPT !.cbl = TRUE])
             ELSE IF c.book_line_flag /\ ch = BookClose
             THEN WalkLocal(c, local, i + 1, positions, [w EXCEPT !.cbl = FALSE])
             ELSE IF ch \in c.comment_nop
             THEN WalkLocal(c, local, i + 1, positions,
                    IF w.last_pos = NoCell THEN w
                    ELSE [w EXCEPT !.st = PushGlyph(@,
                            BuildTextGlyph(c, w.last_pos, ch, TRUE, TRUE, FALSE))])
             ELSE IF w.non_nop_count >= Len(positions)
             THEN [w EXCEPT !.requeue = SubSeq(local, i + 1, Len(local)) \o <<ch>>,
                            !.dry = TRUE]
             ELSE LET p == positions[w.non_nop_count + 1]
                  IN  WalkLocal(c, local, i + 1, positions,
                        [w EXCEPT
                            !.last_pos = p.pos,
                            !.cls = p.pos,
                            !.non_nop_count = @ + 1,
                            !.st = LET g == BuildTextGlyph(c, p.pos, ch, TRUE,
                                                FALSE, ch \in c.comment_rotate)
                                   IN  IF w.cbl /\ c.book_line_flag /\ ch # " "
                                            /\ c.bookline
                                       THEN PushLine(PushGlyph(@, g), p.pos)
                                       ELSE PushGlyph(@, g),
                            !.placed = Append(@, [ch |-> ch, index |-> p.index,
                                                  side |-> p.side])])

\* one record of the log of render_comments: what one iteration of its loop did
LogEntry(kind, slot, pairs, placed, after, left) ==
    [kind |-> kind, slot |-> slot, pairs |-> pairs, placed |-> placed,
     after |-> after, left |-> left]

\* a slots_used that rounds down
SlotsUsedRoundedDown(non_nop_count) == non_nop_count \div 2

\* slots_used of one packing step (line 422)
SlotsUsed(non_nop_count) == (non_nop_count + 1) \div 2

\* a slots_in_column that counts the whole column at every slot
SlotsInColumnWhole(lay, slot) == lay.rows_per_column

\* slots_in_column (lines 261-263): the rows left in the column of slot+1
SlotsInColumn(lay, slot) ==
    LET row_idx == (slot % lay.rows_per_column) + 1
    IN  SatSub(lay.rows_per_column, row_idx - 1)

\* take_pairs of one packing step (line 293)
TakePairs(lay, slot, slot_needed) == Min(SlotsInColumn(lay, slot), slot_needed)

\* the 'outer loop of render_comments (lines 248-424): the cursor, the
\* leftover queue and the log of its iterations
RECURSIVE RenderLoop(_, _, _, _, _, _, _, _)
RenderLoop(c, lay, title_text, st, remaining, cbl, cls, log) ==
    IF remaining = <<>> THEN [st |-> st, queue |-> remaining, log |-> log]
    ELSE IF st.pcnt >= lay.per_page
    THEN RenderLoop(c, lay, title_text, FinalizePage(st, title_text), remaining,
            cbl, NoCell,
            Append(log, LogEntry("finalize", st.pcnt, 0, <<>>, 0, Len(remaining))))
    ELSE LET slot_needed == CountCommentSlots(c, remaining)
             take_pairs == TakePairs(lay, st.pcnt, slot_needed)
         IN  IF SlotsInColumn(lay, st.pcnt) = 0
             THEN RenderLoop(c, lay, title_text, FinalizePage(st, title_text),
                    remaining, cbl, NoCell,
                    Append(log, LogEntry("finalize", st.pcnt, 0, <<>>, 0,
                                         Len(remaining))))
             ELSE IF slot_needed = 0
             THEN [st |-> DrainMarks(c, remaining, cls, st),
                   queue |-> <<>>,
                   log |-> Append(log, LogEntry("drain", st.pcnt, 0, <<>>, st.pcnt, 0))]
             ELSE IF st.pcnt + take_pairs > lay.per_page
                        \/ StepPositions(lay, st.pcnt, take_pairs) = <<>>
             THEN RenderLoop(c, lay, title_text, FinalizePage(st, title_text),
                    remaining, cbl, NoCell,
                    Append(log, LogEntry("finalize", st.pcnt, 0, <<>>, 0,
                                         Len(remaining))))
             ELSE LET pulled == PullLocal(c, <<>>, remaining, take_pairs * 2)
                      w == WalkLocal(c, pulled[1], 1,
                                StepPositions(lay, st.pcnt, take_pairs),
                                [st |-> st, cbl |-> cbl, last_pos |-> cls, cls |-> cls,
                                 non_nop_count |-> 0, placed |-> <<>>,
                                 requeue |-> <<>>, dry |-> FALSE])
                      used == IF w.dry \/ w.non_nop_count = 0 THEN 0
                              ELSE SlotsUsed(w.non_nop_count)
                      rest == w.requeue \o pulled[2]
                  IN  RenderLoop(c, lay, title_text,
                        [w.st EXCEPT !.pcnt = @ + used],
                        rest, w.cbl, w.cls,
                        Append(log, LogEntry("pack", st.pcnt, take_pairs, w.placed,
                                             st.pcnt + used, Len(rest))))

\* LayoutEngine::render_comments
RenderComments(c, lay, title_text, st, queue) ==
    IF queue = <<>> THEN [st |-> st, queue |-> queue, log |-> <<>>]
    ELSE RenderLoop(c, lay, title_text, st, queue, FALSE, NoCell, <<>>)

(***************************************************************************)
(* The steps of the run.  pc is "loop" at the head of build_plan's chapter *)
(* loop, "entry" inside the character loop of process_entry, "break" when  *)
(* that loop was left by a break, "flush" before the trailing flush and    *)
(* "done" when build_plan has returned.                                    *)
(***************************************************************************)
Title == ComputeEntryTitle(cfg, idx)

\* a lookup that yields an empty text for an ordinal without an entry
CorpusEntryOrEmpty(c, i) ==
    IF i \in DOMAIN c.entries /\ c.entries[i] # NoEntry THEN c.entries[i]
    ELSE [data |-> <<>>, more |-> 0]

\* TextCorpus::entry: the entry of ordinal i, NoEntry for the error
CorpusEntry(c, i) == IF i \in DOMAIN c.entries THEN c.entries[i] ELSE NoEntry

\* the record of a step, kept in ev: the operation, the character read, the
\* slot counter before the step, the annotation queue and the log of its
\* layout, the number of finalize_page calls and of pages pushed, and the
\* glyphs and lines the step put on pages
Event(op, ch, queue, log) ==
    [op |-> op, ch |-> ch, slot |-> pcnt, queue |-> queue, log |-> log,
     finalized |-> 0, pushed |-> 0, emitted |-> <<>>, drawn |-> <<>>]

NoEvent ==
    [op |-> "none", ch |-> None, slot |-> 0, queue |-> <<>>, log |-> <<>>,
     finalized |-> 0, pushed |-> 0, emitted |-> <<>>, drawn |-> <<>>]

\* the variables of the cursor after a step that left it as st
CursorStep(st) ==
    /\ pcnt' = st.pcnt
    /\ next_page_number' = st.next_page_number
    /\ generated_pages' = st.generated_pages
    /\ current_page' = st.current_page
    /\ pages' = st.pages

\* the assignments one iteration of the character loop makes
EngineStep(st, s, lp, bl, next_pc, event) ==
    /\ CursorStep(st)
    /\ chars' = s.chars
    /\ budget' = s.budget
    /\ last_pos' = lp
    /\ bookline_active' = bl
    /\ pc' = next_pc
    /\ ev' = [event EXCEPT !.finalized = st.next_page_number - next_page_number,
                           !.pushed = Len(st.pages) - Len(pages),
                           !.emitted = st.emitted, !.drawn = st.drawn]
    /\ UNCHANGED <<cfg, layout, idx, outlines, result>>

\* process_entry returning the 'layout index out of range' error, which
\* build_plan propagates
EngineError(st, s, event) ==
    /\ result' = [ok |-> FALSE, err |-> "layout index out of range", at |-> st.pcnt]
    /\ pc' = "done"
    /\ CursorStep(st)
    /\ chars' = s.chars
    /\ budget' = s.budget
    /\ ev' = [event EXCEPT !.finalized = st.next_page_number - next_page_number,
                           !.pushed = Len(st.pages) - Len(pages),
                           !.emitted = st.emitted, !.drawn = st.drawn]
    /\ UNCHANGED <<cfg, layout, idx, outlines, last_pos, bookline_active>>

\* a fresh page that takes the number of the page it follows
BoundaryPageSameNumber(number, title_text) == PagePlan(number, title_text, 0, 0)

\* the fresh page build_plan puts in place of a finished one at a chapter
\* boundary (lines 72-80)
BoundaryPage(number, title_text) == PagePlan(number + 1, title_text, 0, 0)

\* build_plan, lines 67-97: the head of one iteration of the chapter loop, up
\* to the call of process_entry
ChapterStart ==
    /\ pc = "loop"
    /\ IF CorpusEntry(cfg, idx) = NoEntry
       THEN /\ result' = [ok |-> FALSE, err |-> "text entry not available", at |-> idx]
            /\ pc' = "done"
            /\ UNCHANGED <<cfg, layout, idx, chars, budget, pcnt, next_page_number,
                           generated_pages, bookline_active, last_pos, current_page,
                           pages, outlines>>
       ELSE IF current_page.glyphs # 0
                /\ ReachedLimit(cfg, generated_pages + 1)
       THEN /\ pages' = Append(pages, current_page)
            /\ current_page' = BoundaryPage(next_page_number, Title)
            /\ generated_pages' = generated_pages + 1
            /\ pc' = "flush"
            /\ UNCHANGED <<cfg, layout, idx, chars, budget, pcnt, next_page_number,
                           bookline_active, last_pos, outlines, result>>
       ELSE /\ IF current_page.glyphs # 0
               THEN /\ pages' = Append(pages, current_page)
                    /\ current_page' = BoundaryPage(next_page_number, Title)
                    /\ generated_pages' = generated_pages + 1
                    /\ next_page_number' = next_page_number + 1
                    /\ pcnt' = 0
               ELSE /\ current_page' = [current_page EXCEPT !.title = Title]
                    /\ UNCHANGED <<pages, generated_pages, next_page_number, pcnt>>
            /\ outlines' = Append(outlines,
                    [title |-> Title, page_number |-> next_page_number'])
            /\ chars' = CorpusEntry(cfg, idx).data
            /\ budget' = CorpusEntry(cfg, idx).more
            /\ last_pos' = NoCell
            /\ pc' = "entry"
            /\ UNCHANGED <<cfg, layout, idx, bookline_active, result>>
    /\ ev' = [Event("chapter", None, <<>>, <<>>) EXCEPT
                !.pushed = Len(pages') - Len(pages)]

\* the '%' arm (lines 42-57)
Percent ==
    /\ pc = "entry"
    /\ PageBreak \in NextChars(Stream)
    /\ \E s \in SkipRowPadding(cfg, Rest(Stream)) :
        LET st == FinalizePage(Cursor, Title)
        IN  EngineStep(st, s, NoCell, bookline_active,
                IF ReachedLimit(cfg, st.generated_pages) THEN "break" ELSE "entry",
                Event("%", PageBreak, <<>>, <<>>))

\* a '$' that also moves slot 0 to the half
HalfJumpSlotFromZero(lay, slot) ==
    LET half == lay.per_page \div 2
    IN  IF slot = half THEN slot
        ELSE IF slot < half THEN half
        ELSE lay.per_page

\* the slot a '$' leaves (lines 60-68)
HalfJumpSlot(lay, slot) ==
    LET half == lay.per_page \div 2
    IN  IF slot = 0 \/ slot = half THEN slot
        ELSE IF slot < half THEN half
        ELSE lay.per_page

\* the '$' arm (lines 58-70)
Dollar ==
    /\ pc = "entry"
    /\ HalfJump \in NextChars(Stream)
    /\ \E s \in SkipRowPadding(cfg, Rest(Stream)) :
            EngineStep([Cursor EXCEPT !.pcnt = HalfJumpSlot(layout, pcnt)],
                s, last_pos, bookline_active, "entry",
                Event("$", HalfJump, <<>>, <<>>))

\* the slot a '^' leaves when the band count is above 1 (lines 73-79)
BandJumpSlot(lay, slot) ==
    LET band == lay.columns * lay.rows_per_column
        next_band_start == ((slot \div band) + 1) * band
    IN  IF next_band_start < lay.per_page THEN next_band_start ELSE lay.per_page

\* the '^' arm with more than one band (lines 71-83)
Caret ==
    /\ pc = "entry"
    /\ BandJump \in NextChars(Stream)
    /\ layout.multirows_bands > 1
    /\ EngineStep([Cursor EXCEPT !.pcnt = BandJumpSlot(layout, pcnt)],
            Rest(Stream), NoCell, bookline_active, "entry",
            Event("^", BandJump, <<>>, <<>>))

\* a '&' that moves the slot only from before the start of the last column
LastColumnSlotFromBefore(lay, slot) ==
    LET last_col_start == SatSub(lay.per_page, lay.rows_per_column)
    IN  IF lay.rows_per_column = 0 THEN slot
        ELSE IF slot <= last_col_start THEN last_col_start
        ELSE slot

\* the slot a '&' leaves (lines 86-94)
LastColumnSlot(lay, slot) ==
    LET last_col_start == SatSub(lay.per_page, lay.rows_per_column)
        threshold == last_col_start + 1
    IN  IF lay.rows_per_column = 0 THEN slot
        ELSE IF slot <= threshold THEN last_col_start
        ELSE slot

\* the '&' arm (lines 84-96)
Ampersand ==
    /\ pc = "entry"
    /\ LastColumn \in NextChars(Stream)
    /\ \E s \in SkipRowPadding(cfg, Rest(Stream)) :
            EngineStep([Cursor EXCEPT !.pcnt = LastColumnSlot(layout, pcnt)],
                s, last_pos, bookline_active, "entry",
                Event("&", LastColumn, <<>>, <<>>))

\* a match in which the closing bracket leaves the flag as it is
BooklineAfterOpenOnly(ch, active) ==
    IF ch = BookOpen THEN TRUE ELSE active

\* bookline_active after the match on a character (lines 97-108)
BooklineAfter(ch, active) ==
    IF ch = BookOpen THEN TRUE
    ELSE IF ch = BookClose THEN FALSE
    ELSE active

\* the bookline bracket arms with bookline decoration enabled (lines 97-108)
BooklineBracket ==
    /\ pc = "entry"
    /\ cfg.book_line_flag
    /\ \E ch \in NextChars(Stream) \cap {BookOpen, BookClose} :
            EngineStep(Cursor, Rest(Stream), last_pos,
                BooklineAfter(ch, bookline_active), "entry",
                Event("bookline", ch, <<>>, <<>>))

\* the annotation contents the stream can yield after a '【': the characters
\* up to the closing bracket, or to the end of the stream, with the stream
\* left behind.  A block that is drawn holds up to MaxNoteLen characters of
\* the annotation alphabet.
NoteReads(s) ==
    LET close == {i \in 1..Len(s.chars) : s.chars[i] = NoteClose}
        first == IF close = {} THEN 0
                 ELSE CHOOSE i \in close : \A k \in close : i <= k
        Drawn == UNION {[1..n -> cfg.note_alphabet] : n \in 0..MaxNoteLen}
    IN  IF first # 0
        THEN {[queue |-> SubSeq(s.chars, 1, first - 1),
               rest |-> StreamOf(SubSeq(s.chars, first + 1, Len(s.chars)), s.budget)]}
        ELSE IF s.budget = 0
        THEN {[queue |-> s.chars, rest |-> StreamOf(<<>>, 0)]}
        ELSE {[queue |-> s.chars \o q, rest |-> StreamOf(<<>>, 0)] : q \in Drawn}
             \cup {[queue |-> s.chars \o q, rest |-> StreamOf(<<>>, s.budget)] :
                        q \in Drawn}

\* the '【' arm (lines 109-129)
Annotation ==
    /\ pc = "entry"
    /\ NoteOpen \in NextChars(Stream)
    /\ \E r \in NoteReads(Rest(Stream)) :
            LET out == RenderComments(cfg, layout, Title, Cursor, r.queue)
            IN  EngineStep(out.st, r.rest,
                    IF r.queue # <<>> THEN NoCell ELSE last_pos,
                    bookline_active, "entry",
                    Event("note", NoteOpen, r.queue, out.log))

\* the characters that reach the classification of lines 133-135
Ordinary(ch) ==
    /\ ch \notin {PageBreak, HalfJump, LastColumn, NoteOpen}
    /\ ~(ch = BandJump /\ layout.multirows_bands > 1)
    /\ ~(ch \in {BookOpen, BookClose} /\ cfg.book_line_flag)

\* a test that finds the page full one slot early
FullPageAtLastSlot(ch) == ch \notin cfg.text_nop /\ pcnt + 1 >= layout.per_page

\* lines 137-150: the page is finalized before a slot-consuming character when
\* it is full
FullPage(ch) == ch \notin cfg.text_nop /\ pcnt = layout.per_page

BeforeChar(ch) == IF FullPage(ch) THEN FinalizePage(Cursor, Title) ELSE Cursor

\* a placement that draws the bookline of a character with no glyph
PlaceCharLiningUnresolved(st, ch, pos, is_rot, active) ==
    LET g == BuildTextGlyph(cfg, pos, ch, FALSE, FALSE, is_rot)
        drawn == IF g = NoGlyph THEN st ELSE PushGlyph(st, g)
    IN  IF active /\ cfg.book_line_flag /\ ch # " " /\ cfg.bookline
        THEN PushLine(drawn, pos)
        ELSE drawn

\* a placement that draws the bookline of a space too
PlaceCharLiningSpaces(st, ch, pos, is_rot, active) ==
    LET g == BuildTextGlyph(cfg, pos, ch, FALSE, FALSE, is_rot)
    IN  IF g = NoGlyph THEN st
        ELSE IF active /\ cfg.book_line_flag /\ cfg.bookline
        THEN PushLine(PushGlyph(st, g), pos)
        ELSE PushGlyph(st, g)

\* the cursor after a slot-consuming character was laid at pos (lines 153-172
\* and 186-212): the glyph, when one resolves, and its bookline
PlaceChar(st, ch, pos, is_rot, active) ==
    LET g == BuildTextGlyph(cfg, pos, ch, FALSE, FALSE, is_rot)
    IN  IF g = NoGlyph THEN st
        ELSE IF active /\ cfg.book_line_flag /\ ch # " " /\ cfg.bookline
        THEN PushLine(PushGlyph(st, g), pos)
        ELSE PushGlyph(st, g)

\* a rotated mark (lines 152-174)
RotChar ==
    /\ pc = "entry"
    /\ \E ch \in NextChars(Stream) :
        /\ Ordinary(ch)
        /\ ch \in cfg.text_rotate
        /\ LET st0 == BeforeChar(ch)
               lp0 == IF FullPage(ch) THEN NoCell ELSE last_pos
               bl == BooklineAfter(ch, bookline_active)
               st1 == [st0 EXCEPT !.pcnt = @ + 1]
               pos == PosLeft(layout, st1.pcnt)
               event == Event("rot", ch, <<>>, <<>>)
           IN  IF FullPage(ch) /\ ReachedLimit(cfg, st0.generated_pages)
               THEN EngineStep(st0, Rest(Stream), lp0, bl, "break", event)
               ELSE IF pos = NoCell
               THEN EngineError(st1, Rest(Stream), event)
               ELSE EngineStep(PlaceChar(st1, ch, pos, TRUE, bl), Rest(Stream),
                        IF BuildTextGlyph(cfg, pos, ch, FALSE, FALSE, TRUE) # NoGlyph
                        THEN pos ELSE lp0,
                        bl, "entry", event)

\* a mark position that is always the cell of the current slot
MarkPositionAtSlot(lay, lp, slot) ==
    IF PosLeft(lay, Max(slot, 1)) # NoCell THEN PosLeft(lay, Max(slot, 1))
    ELSE Cell(0, 0)

\* the position a non-slot mark is drawn at (lines 177-179)
MarkPosition(lay, lp, slot) ==
    IF lp # NoCell THEN lp
    ELSE IF PosLeft(lay, Max(slot, 1)) # NoCell THEN PosLeft(lay, Max(slot, 1))
    ELSE Cell(0, 0)

\* a non-slot mark (lines 176-184)
NopChar ==
    /\ pc = "entry"
    /\ \E ch \in NextChars(Stream) :
        /\ Ordinary(ch)
        /\ ch \notin cfg.text_rotate
        /\ ch \in cfg.text_nop
        /\ EngineStep(
                PushGlyph(Cursor, BuildTextGlyph(cfg,
                    MarkPosition(layout, last_pos, pcnt), ch, FALSE, TRUE, FALSE)),
                Rest(Stream), last_pos, BooklineAfter(ch, bookline_active),
                "entry", Event("nop", ch, <<>>, <<>>))

\* what chars.peek() can show after a character filled the page, and the
\* stream in which it is known (lines 214-215)
Peeks(s) ==
    IF s.chars # <<>> THEN {[ch |-> Head(s.chars), s |-> s]}
    ELSE {[ch |-> None, s |-> StreamOf(<<>>, 0)]}
         \cup {[ch |-> c, s |-> StreamOf(<<c>>, s.budget - 1)] :
                    c \in IF s.budget > 0 THEN cfg.alphabet ELSE {}}

\* a plain character (lines 186-226)
PlainChar ==
    /\ pc = "entry"
    /\ \E ch \in NextChars(Stream) :
        /\ Ordinary(ch)
        /\ ch \notin cfg.text_rotate
        /\ ch \notin cfg.text_nop
        /\ LET st0 == BeforeChar(ch)
               lp0 == IF FullPage(ch) THEN NoCell ELSE last_pos
               bl == BooklineAfter(ch, bookline_active)
               st1 == [st0 EXCEPT !.pcnt = @ + 1]
               pos == PosLeft(layout, st1.pcnt)
               st2 == PlaceChar(st1, ch, pos, FALSE, bl)
               lp2 == IF BuildTextGlyph(cfg, pos, ch, FALSE, FALSE, FALSE) # NoGlyph
                      THEN pos ELSE lp0
               event == Event("plain", ch, <<>>, <<>>)
           IN  IF FullPage(ch) /\ ReachedLimit(cfg, st0.generated_pages)
               THEN EngineStep(st0, Rest(Stream), lp0, bl, "break", event)
               ELSE IF pos = NoCell
               THEN EngineError(st1, Rest(Stream), event)
               ELSE IF st1.pcnt # layout.per_page
               THEN EngineStep(st2, Rest(Stream), lp2, bl, "entry", event)
               ELSE \E pk \in Peeks(Rest(Stream)) :
                        IF pk.ch # None /\ pk.ch \in cfg.text_nop
                        THEN EngineStep(
                                PushGlyph(st2, BuildTextGlyph(cfg,
                                    IF lp2 # NoCell THEN lp2 ELSE pos,
                                    pk.ch, FALSE, TRUE, FALSE)),
                                Rest(pk.s), lp2, bl, "entry", event)
                        ELSE EngineStep(st2, pk.s, lp2, bl, "entry", event)

\* process_entry returns Ok and build_plan goes on (lines 106-111): the loop
\* is left when the cap is reached or the range is done
EntryReturn ==
    /\ \/ pc = "entry" /\ chars = <<>>
       \/ pc = "break"
    /\ ev' = Event("return", None, <<>>, <<>>)
    /\ chars' = <<>>
    /\ budget' = 0
    /\ IF ReachedLimit(cfg, generated_pages) \/ idx = cfg.to
       THEN pc' = "flush" /\ idx' = idx
       ELSE pc' = "loop" /\ idx' = idx + 1
    /\ UNCHANGED <<cfg, layout, pcnt, next_page_number, generated_pages,
                   bookline_active, last_pos, current_page, pages, outlines, result>>

\* build_plan, lines 113-123: the trailing flush and the DocumentPlan
Finish ==
    /\ pc = "flush"
    /\ pages' = IF current_page.glyphs # 0 /\ ~ReachedLimit(cfg, generated_pages)
                THEN Append(pages, current_page) ELSE pages
    /\ result' = [ok |-> TRUE, err |-> None, at |-> 0]
    /\ pc' = "done"
    /\ ev' = [Event("finish", None, <<>>, <<>>) EXCEPT
                !.pushed = Len(pages') - Len(pages)]
    /\ UNCHANGED <<cfg, layout, idx, chars, budget, pcnt, next_page_number,
                   generated_pages, bookline_active, last_pos, current_page,
                   outlines>>

Next ==
    \/ ChapterStart
    \/ Percent
    \/ Dollar
    \/ Caret
    \/ Ampersand
    \/ BooklineBracket
    \/ Annotation
    \/ RotChar
    \/ NopChar
    \/ PlainChar
    \/ EntryReturn
    \/ Finish

(***************************************************************************)
(* The configurations and the initial states.                              *)
(***************************************************************************)
\* the characters the fonts of the model hold: "u" is in no font, and neither
\* is the placeholder; "j" is only there as its Traditional form "f"
FontGlyphs == {"a", " ", "n", "r", "f", PageBreak, HalfJump, BandJump, LastColumn,
               BookOpen, BookClose, NoteOpen, NoteClose}

\* a corpus entry whose text is known
EntryOf(data) == [data |-> data, more |-> 0]

\* a corpus entry of up to n items, each any character of the alphabet or an
\* annotation block
AnyEntry(n) == [data |-> <<>>, more |-> n]

\* a book and canvas configuration with the run's options; the fields are those
\* of BookConfig, CanvasConfig, FontManager, NumeralMap, TextCorpus and
\* TypesetOptions that the modelled code reads
Config(row_num, leaf_col, multirows, book_line_flag, test_pages, to, entries) ==
    [row_num |-> row_num, row_delta_y |-> 0, canvas |-> Canvas(leaf_col, 20),
     multirows |-> multirows,
     book_line_flag |-> book_line_flag, bookline |-> book_line_flag,
     text_nop |-> {"n"}, text_rotate |-> {"r"},
     comment_nop |-> {"n"}, comment_rotate |-> {"r"}, comment_strip_chars |-> {"n"},
     slots |-> <<FontGlyphs>>, text_stack |-> <<1>>, comment_stack |-> <<1>>,
     try_st |-> FALSE,
     test_pages |-> test_pages, from |-> 1, to |-> to, entries |-> entries,
     has_text000 |-> FALSE, has_text999 |-> FALSE,
     title |-> <<"T">>, postfix |-> <<<<"v", "X">>>>, numerals |-> (1 :> <<"one">>),
     replacements |-> [comma_pairs |-> <<>>, number_pairs |-> <<>>,
                       delete_tokens |-> <<>>],
     text_modes |-> [remove_punctuations |-> FALSE, remove_tokens |-> <<>>,
                     only_period |-> FALSE, only_period_tokens |-> <<>>],
     source |-> <<>>,
     alphabet |-> {"a", "n", "r", "u", PageBreak, HalfJump, BandJump, LastColumn,
                   BookOpen, BookClose, NoteOpen},
     note_alphabet |-> {"a", "n"}]

\* the state build_plan starts from (lines 47-58), for a configuration whose
\* Layout::build succeeded
InitRun(c) ==
    /\ cfg = c
    /\ layout = LayoutBuild(c.row_num, c.row_delta_y, c.canvas, c.multirows)
    /\ layout.ok
    /\ pc = "loop"
    /\ idx = c.from
    /\ chars = <<>>
    /\ budget = 0
    /\ pcnt = 0
    /\ next_page_number = 1
    /\ generated_pages = 0
    /\ bookline_active = FALSE
    /\ last_pos = NoCell
    /\ current_page = PagePlan(1, <<>>, 0, 0)
    /\ pages = <<>>
    /\ outlines = <<>>
    /\ result = NoResult
    /\ ev = NoEvent

\* the corpora of the run: ordinals 1..to hold an entry, but for the ordinal
\* `missing` (0: none is missing); the entries a run can read hold MaxItems
\* items between them
Corpora(to, missing) ==
    LET read == {i \in 1..to : missing = 0 \/ i < missing}
        lens == {f \in [1..to -> 0..MaxItems] :
                    /\ \A i \in 1..to : i \notin read => f[i] = 0
                    /\ read # {} => SumSeq(f) = MaxItems}
    IN  {[i \in 0..MaxChapter |->
            IF i \in 1..to /\ i # missing THEN AnyEntry(f[i]) ELSE NoEntry] :
         f \in lens}

Init ==
    \E row_num \in 1..MaxRowNum, leaf_col \in 1..MaxColumns,
       book_line_flag \in BOOLEAN,
       test_pages \in {<<>>} \cup {<<n>> : n \in 0..MaxTestPages},
       to \in 1..MaxChapter :
        \E multirows \in {Disabled} \cup {HorizontalLeaf(r) : r \in 2..row_num},
           missing \in 0..to :
            \E entries \in Corpora(to, missing) :
                InitRun(Config(row_num, leaf_col, multirows, book_line_flag,
                               test_pages, to, entries))

Spec == Init /\ [][Next]_vars

(***************************************************************************)
(* plan.rs: DocumentPlan::validate, which main runs on the plan build_plan *)
(* returns.  build_plan records a cover path exactly when the cover is an  *)
(* image, so the cover test of validate passes on its plans.               *)
(***************************************************************************)
RECURSIVE ValidatePages(_, _)
ValidatePages(plan_pages, last_page) ==
    IF plan_pages = <<>> THEN "ok"
    ELSE IF Head(plan_pages).number = 0 THEN "page number cannot be 0"
    ELSE IF Head(plan_pages).number <= last_page
    THEN "page numbers must be strictly increasing"
    ELSE ValidatePages(Tail(plan_pages), Head(plan_pages).number)

Validate(plan_pages, plan_outlines) ==
    LET seen_pages == {plan_pages[i].number : i \in 1..Len(plan_pages)}
    IN  IF ValidatePages(plan_pages, 0) # "ok" THEN ValidatePages(plan_pages, 0)
        ELSE IF \E k \in 1..Len(plan_outlines) :
                    plan_outlines[k].page_number \notin seen_pages
        THEN "outline references missing page"
        ELSE "ok"

\* build_plan has returned a DocumentPlan
Returned == pc = "done" /\ result.ok

(***************************************************************************)
(* Page numbering of the plan.                                             *)
(***************************************************************************)
\* C1: in every run (every range, text and cap) the pages pushed so far, and
\* so the pages of the plan build_plan returns, have non-zero page numbers
\* that strictly increase in list order, and each holds at least one glyph.
PagesIncreasingAndNonEmpty ==
    \A i \in 1..Len(pages) :
        /\ pages[i].number # 0
        /\ pages[i].glyphs >= 1
        /\ i > 1 => pages[i - 1].number < pages[i].number

\* a returned plan of two pages or more, made in a run in which finalize_page,
\* the chapter boundary and the trailing flush all met a page: one of them an
\* empty page, which left a hole in the numbers
PagesIncreasingAndNonEmptyWitness ==
    /\ Returned
    /\ Len(pages) >= 2
    /\ pages[2].number > pages[1].number + 1
    /\ ev.op = "finish"
    /\ ev.pushed = 1

\* C2: the page numbers of the produced plan are consecutive from 1: each
\* emitted page is numbered one higher than the page emitted before it, and
\* the first is numbered 1.
PageNumbersConsecutive ==
    Returned => \A i \in 1..Len(pages) : pages[i].number = i

\* C3: every outline entry of the returned plan carries the number of a page
\* of the plan, so DocumentPlan::validate does not fail on it.
OutlinePagesExist ==
    Returned =>
        /\ \A k \in 1..Len(outlines) :
                \E i \in 1..Len(pages) : pages[i].number = outlines[k].page_number
        /\ Validate(pages, outlines) = "ok"

(***************************************************************************)
(* Missing chapters.                                                       *)
(***************************************************************************)
\* the ordinals of the requested range that have no corpus entry
MissingOrdinals == {i \in cfg.from..cfg.to : cfg.entries[i] = NoEntry}

FirstMissing == CHOOSE i \in MissingOrdinals : \A k \in MissingOrdinals : i <= k

\* C6 as stated: when an ordinal of the range has no entry, build_plan fails
\* with the error naming that ordinal and returns no plan, whatever the cap.
MissingOrdinalAlwaysFails ==
    pc = "done" /\ MissingOrdinals # {} =>
        /\ ~result.ok
        /\ result.err = "text entry not available"
        /\ result.at = FirstMissing

\* C6: when an ordinal of the range has no entry, build_plan fails with the
\* error naming that ordinal and returns no plan, unless the page cap was
\* reached in a chapter before that ordinal: then it returns a plan without
\* having looked the ordinal up.  Without a cap it always fails.
MissingOrdinalFailsWhenReached ==
    pc = "done" /\ MissingOrdinals # {} =>
        IF result.ok
        THEN /\ cfg.test_pages # <<>>
             /\ generated_pages >= cfg.test_pages[1]
             /\ idx < FirstMissing
        ELSE /\ result.err = "text entry not available"
             /\ result.at = FirstMissing

\* the second chapter is missing and is looked up, under a cap, after the
\* first chapter put glyphs on the in-progress page: no plan is returned
MissingOrdinalFailsWhenReachedWitness ==
    /\ pc = "done"
    /\ ~result.ok
    /\ result.at = 2
    /\ cfg.test_pages # <<>>
    /\ current_page.glyphs > 0
    /\ ev.op = "chapter"

(***************************************************************************)
(* Markers and annotation blocks.                                          *)
(***************************************************************************)
\* C9: after a '$' read at slot s, with half = capacity / 2: the slot is s
\* when s is 0 or half, half when 0 < s < half, capacity when s > half; the
\* '$' emits no glyph and no line, finalizes and pushes no page; and a
\* slot-consuming character read at slot = capacity finalizes the page.
HalfJumpEffect ==
    LET half == layout.per_page \div 2
    IN  /\ ev.op = "$" =>
            /\ (ev.slot = 0 \/ ev.slot = half) => pcnt = ev.slot
            /\ (0 < ev.slot /\ ev.slot < half) => pcnt = half
            /\ ev.slot > half => pcnt = layout.per_page
            /\ ev.emitted = <<>>
            /\ ev.drawn = <<>>
            /\ ev.finalized = 0
            /\ ev.pushed = 0
        /\ ev.op \in {"plain", "rot"} /\ ev.slot = layout.per_page =>
            ev.finalized = 1

\* a '$' read below the half moved the slot to the half
HalfJumpEffectWitness ==
    /\ ev.op = "$"
    /\ 0 < ev.slot
    /\ ev.slot < layout.per_page \div 2
    /\ pcnt = layout.per_page \div 2

\* the advance of the slot counter over the packing steps of a log
NoteAdvance(log) ==
    SumSeq([k \in 1..Len(log) |->
                IF log[k].kind = "pack" THEN log[k].after - log[k].slot ELSE 0])

\* the log follows the slot counter from the slot before the block to the slot
\* after it
LogFollowsSlot(log) ==
    /\ log # <<>>
    /\ log[1].slot = ev.slot
    /\ \A k \in 1..(Len(log) - 1) : log[k + 1].slot = log[k].after
    /\ log[Len(log)].after = pcnt

\* C5: an annotation block of K >= 1 slot-consuming characters, read at any
\* slot, advances the slot counter by ceil(K/2) in total over its packing
\* steps, and every grid index a character of it is placed at is in
\* 1..capacity.
AnnotationAdvance ==
    ev.op = "note" /\ ConsumingCount(cfg, ev.queue) >= 1 =>
        /\ LogFollowsSlot(ev.log)
        /\ NoteAdvance(ev.log) = CeilHalf(ConsumingCount(cfg, ev.queue))
        /\ \A k \in 1..Len(ev.log) : \A j \in 1..Len(ev.log[k].placed) :
                ev.log[k].placed[j].index \in 1..layout.per_page

\* a block of 3 slot-consuming characters, read past slot 0 and split by a page
\* finalize between two packing steps, advanced the slot by 2
AnnotationAdvanceWitness ==
    /\ ev.op = "note"
    /\ ConsumingCount(cfg, ev.queue) = 3
    /\ ev.slot > 0
    /\ NoteAdvance(ev.log) = 2
    /\ \E k \in 2..(Len(ev.log) - 1) :
            /\ ev.log[k].kind = "finalize"
            /\ ev.log[k - 1].kind = "pack"
            /\ ev.log[k + 1].kind = "pack"

(***************************************************************************)
(* Layout::build on its own: the grid of every geometry input, valid or    *)
(* not, and the lookups pos_left / pos_right on a grid that was built.     *)
(***************************************************************************)
MaxLeafRows == 4       \* row_num and the band count range over 0..MaxLeafRows

MaxLeafCols == 3       \* leaf_col ranges over 0..MaxLeafCols

\* the inputs of Layout::build
Geometry(row_num, row_delta_y, canvas, multirows) ==
    [row_num |-> row_num, row_delta_y |-> row_delta_y, canvas |-> canvas,
     multirows |-> multirows]

InitLayout ==
    /\ \E row_num \in 0..MaxLeafRows, leaf_col \in 0..MaxLeafCols,
          rows \in 0..MaxLeafRows, row_delta_y \in {0, 5},
          kind \in {"Disabled", "HorizontalLeaf", "HorizontalPage"} :
            cfg = Geometry(row_num, row_delta_y, Canvas(leaf_col, 20),
                    IF kind = "Disabled" THEN Disabled
                    ELSE [kind |-> kind, rows |-> rows])
    /\ layout = [ok |-> FALSE, err |-> "pending"]
    /\ pc = "build"
    /\ idx = 0
    /\ chars = <<>>
    /\ budget = 0
    /\ pcnt = 0
    /\ next_page_number = 1
    /\ generated_pages = 0
    /\ bookline_active = FALSE
    /\ last_pos = NoCell
    /\ current_page = PagePlan(1, <<>>, 0, 0)
    /\ pages = <<>>
    /\ outlines = <<>>
    /\ result = NoResult
    /\ ev = NoEvent

\* the call of Layout::build (main.rs:75)
BuildLayout ==
    /\ pc = "build"
    /\ layout' = LayoutBuild(cfg.row_num, cfg.row_delta_y, cfg.canvas, cfg.multirows)
    /\ result' = [ok |-> layout'.ok, err |-> IF layout'.ok THEN None ELSE layout'.err,
                  at |-> 0]
    /\ pc' = "built"
    /\ UNCHANGED <<cfg, idx, chars, budget, pcnt, next_page_number, generated_pages,
                   bookline_active, last_pos, current_page, pages, outlines, ev>>

\* a lookup of both tables at index i, up to one past the capacity
ReadPosition ==
    /\ pc = "built"
    /\ layout.ok
    /\ \E i \in 0..(layout.per_page + 1) :
            ev' = [op |-> "pos", slot |-> i, left |-> PosLeft(layout, i),
                   right |-> PosRight(layout, i)]
    /\ UNCHANGED <<pc, cfg, layout, idx, chars, budget, pcnt, next_page_number,
                   generated_pages, bookline_active, last_pos, current_page, pages,
                   outlines, result>>

NextLayout == BuildLayout \/ ReadPosition

SpecLayout == InitLayout /\ [][NextLayout]_vars

\* the geometry inputs the claim calls accepted
ValidGeometry(g) ==
    /\ g.canvas.leaf_col >= 1
    /\ g.row_num >= 1
    /\ g.multirows.kind # "Disabled" =>
            g.multirows.rows >= 1 /\ g.row_num % g.multirows.rows = 0

\* C7: for every valid geometry input and each mode, Layout::build returns a
\* grid whose capacity is columns x rowsPerColumn x bands, with one band when
\* the mode is Disabled, and whose two position tables have capacity + 1
\* entries, entry 0 being the (0,0) sentinel.
CapacityAndTables ==
    pc = "built" /\ ValidGeometry(cfg) =>
        /\ layout.ok
        /\ layout.per_page
                = layout.columns * layout.rows_per_column * layout.multirows_bands
        /\ cfg.multirows.kind = "Disabled" => layout.multirows_bands = 1
        /\ Len(layout.pos_l) = layout.per_page + 1
        /\ Len(layout.pos_r) = layout.per_page + 1
        /\ PosLeft(layout, 0) = Cell(0, 0)
        /\ PosRight(layout, 0) = Cell(0, 0)
        /\ PosLeft(layout, layout.per_page + 1) = NoCell
        /\ PosRight(layout, layout.per_page + 1) = NoCell
        /\ ev.op = "pos" =>
                (ev.left # NoCell /\ ev.right # NoCell) = (ev.slot <= layout.per_page)

\* a grid of 3 columns and 2 bands of 2 rows in HorizontalPage mode, whose last
\* entry was looked up
CapacityAndTablesWitness ==
    /\ pc = "built"
    /\ layout.ok
    /\ cfg.multirows = HorizontalPage(2)
    /\ layout.columns = 3
    /\ layout.rows_per_column = 2
    /\ layout.per_page = 12
    /\ ev.op = "pos"
    /\ ev.slot = 12
    /\ ev.left # NoCell

(***************************************************************************)
(* The scenarios of one chapter of plain characters: a chapter that fills  *)
(* the page exactly, or by one character more, on the grid of 20 rows and  *)
(* 2 columns and on the small grids; and, on the grid of 20 rows and 2     *)
(* columns, a chapter with a '%' after its 10th character.                 *)
(***************************************************************************)
MaxRemainder == 21     \* characters after the '%' of a scenario text

\* a corpus of one chapter, ordinal 1, with the given text
OneChapter(text) ==
    [i \in 0..MaxChapter |-> IF i = 1 THEN EntryOf(text) ELSE NoEntry]

ScenarioGeometries ==
    {<<20, 2>>} \cup {<<r, c>> : r \in 1..MaxRowNum, c \in 1..MaxColumns}

ScenarioTexts(g, ch) ==
    {Repeat(ch, g[1] * g[2]), Repeat(ch, g[1] * g[2] + 1)}
        \cup (IF g = <<20, 2>>
              THEN {Repeat(ch, 10) \o <<PageBreak>> \o Repeat(ch, m) :
                        m \in 0..MaxRemainder}
              ELSE {})

InitScenario ==
    \E g \in ScenarioGeometries, ch \in {"a", " "} :
        \E text \in ScenarioTexts(g, ch) :
            InitRun(Config(g[1], g[2], Disabled, FALSE, <<>>, 1, OneChapter(text)))

NextScenario ==
    \/ ChapterStart
    \/ Percent
    \/ PlainChar
    \/ EntryReturn
    \/ Finish

SpecScenario == InitScenario /\ [][NextScenario]_vars

\* a plain character: no marker, no mark of either class, with a glyph
PlainWithGlyph(ch) ==
    /\ ch \notin {PageBreak, HalfJump, BandJump, LastColumn, BookOpen, BookClose,
                  NoteOpen, NoteClose}
    /\ ch \notin cfg.text_nop \cup cfg.text_rotate
    /\ BuildTextGlyph(cfg, Cell(0, 0), ch, FALSE, FALSE, FALSE) # NoGlyph

\* the text of the one chapter of the run
ChapterText == cfg.entries[1].data

\* the run is the one of a single chapter of exactly `capacity` plain characters
FullChapter ==
    /\ cfg.to = 1
    /\ Len(ChapterText) = layout.per_page
    /\ \A i \in 1..Len(ChapterText) : PlainWithGlyph(ChapterText[i])

\* C10: a chapter of exactly `capacity` plain characters, read from slot 0 on
\* an empty page, calls finalize_page at no step, ends with slot = capacity
\* and yields exactly one page, numbered 1, of `capacity` glyphs; and in any
\* chapter a plain character finalizes the page exactly when it is read at
\* slot = capacity.
FullChapterOnePage ==
    /\ FullChapter /\ pc # "loop" =>
        /\ ev.finalized = 0
        /\ next_page_number = 1
        /\ pc \in {"flush", "done"} =>
                pcnt = layout.per_page /\ current_page.glyphs = layout.per_page
        /\ pc # "done" => pages = <<>>
        /\ pc = "done" =>
                /\ result.ok
                /\ Len(pages) = 1
                /\ pages[1].number = 1
                /\ pages[1].glyphs = layout.per_page
    /\ ev.op = "plain" => ((ev.finalized = 1) = (ev.slot = layout.per_page))

\* the plan of a chapter of 40 plain characters on the grid of capacity 40
FullChapterOnePageWitness ==
    /\ FullChapter
    /\ layout.per_page = 40
    /\ Returned
    /\ pcnt = 40
    /\ Len(pages) = 1
    /\ pages[1].glyphs = 40

\* the run is the one of scenario B: 20 rows, 2 columns, no multirow, one
\* chapter with a '%' after its 10th plain character, then plain characters
BreakChapter ==
    /\ cfg.row_num = 20
    /\ cfg.canvas.leaf_col = 2
    /\ cfg.multirows = Disabled
    /\ cfg.to = 1
    /\ Len(ChapterText) >= 12
    /\ ChapterText[11] = PageBreak
    /\ \A i \in 1..Len(ChapterText) : i # 11 => PlainWithGlyph(ChapterText[i])

\* the number of characters after the '%'
Remainder == Len(ChapterText) - 11

\* C8 as stated: the plan of scenario B has exactly two pages, the first of
\* the 10 glyphs before the '%', the second numbered one higher and holding
\* the glyphs of the remainder.
BreakGivesTwoPages ==
    BreakChapter /\ pc = "done" =>
        /\ Len(pages) = 2
        /\ pages[1].glyphs = 10
        /\ pages[2].number = pages[1].number + 1
        /\ pages[2].glyphs = Remainder

\* C8: in scenario B the first page, numbered 1, holds the 10 glyphs before the
\* '%'; the '%' discards the first 19 characters of the remainder; a
\* remainder of 19 characters or fewer leaves a plan of that one page, and a
\* longer one (up to 19 + capacity) a plan of two pages, the second numbered 2
\* and holding the glyphs of the remainder past its 19th character.
BreakDiscardsRowPadding ==
    BreakChapter /\ pc = "done" /\ Remainder <= 19 + layout.per_page =>
        /\ result.ok
        /\ pages[1].number = 1
        /\ pages[1].glyphs = 10
        /\ IF Remainder <= 19
           THEN Len(pages) = 1
           ELSE /\ Len(pages) = 2
                /\ pages[2].number = 2
                /\ pages[2].glyphs = Remainder - 19

\* the plan of scenario B for a remainder of 21 characters: a second page of
\* 2 glyphs
BreakDiscardsRowPaddingWitness ==
    /\ BreakChapter
    /\ Remainder = 21
    /\ Returned
    /\ Len(pages) = 2
    /\ pages[2].glyphs = 2

(***************************************************************************)
(* preprocess.rs: process_text.  A text is a sequence of characters, a     *)
(* content a sequence of lines; "." stands for the terminal mark of the    *)
(* collapse-to-period mode and "@" is the blank-slot marker.               *)
(***************************************************************************)
\* the characters of the model for which char::is_whitespace holds
Whitespace == {" "}

IsWhitespace(ch) == ch \in Whitespace

\* str::trim
RECURSIVE TrimStart(_)
TrimStart(text) ==
    IF text # <<>> /\ IsWhitespace(Head(text)) THEN TrimStart(Tail(text)) ELSE text

RECURSIVE TrimEnd(_)
TrimEnd(text) ==
    IF text # <<>> /\ IsWhitespace(text[Len(text)])
    THEN TrimEnd(SubSeq(text, 1, Len(text) - 1)) ELSE text

Trim(text) == TrimEnd(TrimStart(text))

\* str::replace(from, to): the matches of from, left to right and not
\* overlapping, become to; an empty from matches before every character and
\* at the end
RECURSIVE ReplaceAll(_, _, _)
ReplaceAll(text, from, to) ==
    IF from = <<>>
    THEN IF text = <<>> THEN to
         ELSE to \o <<Head(text)>> \o ReplaceAll(Tail(text), from, to)
    ELSE IF Len(text) < Len(from) THEN text
    ELSE IF SubSeq(text, 1, Len(from)) = from
    THEN to \o ReplaceAll(SubSeq(text, Len(from) + 1, Len(text)), from, to)
    ELSE <<Head(text)>> \o ReplaceAll(Tail(text), from, to)

\* the characters of text that fail the test `drop`
RECURSIVE Without(_, _)
Without(text, drop) ==
    IF text = <<>> THEN <<>>
    ELSE (IF Head(text) \in drop THEN <<>> ELSE <<Head(text)>>)
            \o Without(Tail(text), drop)

\* a loop `for (from, to) in pairs { text = text.replace(from, to) }`
RECURSIVE ReplacePairs(_, _)
ReplacePairs(text, pairs) ==
    IF pairs = <<>> THEN text
    ELSE ReplacePairs(ReplaceAll(text, <<Head(pairs)[1]>>, Head(pairs)[2]),
                      Tail(pairs))

\* a loop `for token in tokens { text = text.replace(token, to) }`; skip_empty
\* is the `if token.is_empty() { continue }` of apply_replacements
RECURSIVE ReplaceTokens(_, _, _, _)
ReplaceTokens(text, tokens, to, skip_empty) ==
    IF tokens = <<>> THEN text
    ELSE IF skip_empty /\ Head(tokens) = <<>>
    THEN ReplaceTokens(text, Tail(tokens), to, skip_empty)
    ELSE ReplaceTokens(ReplaceAll(text, Head(tokens), to), Tail(tokens), to,
                       skip_empty)

\* apply_replacements
ApplyReplacements(text, rules) ==
    ReplaceTokens(ReplacePairs(ReplacePairs(text, rules.comma_pairs),
                               rules.number_pairs),
                  rules.delete_tokens, <<>>, TRUE)

\* a compaction that keeps a terminal mark at the head of the line
RECURSIVE CompactKeepingHead(_, _, _)
CompactKeepingHead(text, compacted, last_char) ==
    IF text = <<>> THEN compacted
    ELSE LET ch == Head(text)
         IN  IF ch = "." /\ last_char = "."
             THEN CompactKeepingHead(Tail(text), compacted, last_char)
             ELSE CompactKeepingHead(Tail(text), Append(compacted, ch), ch)

\* the compaction loop of apply_text_modes (lines 163-174)
RECURSIVE Compact(_, _, _)
Compact(text, compacted, last_char) ==
    IF text = <<>> THEN compacted
    ELSE LET ch == Head(text)
         IN  IF ch = "." /\ last_char = "."
             THEN Compact(Tail(text), compacted, last_char)
             ELSE IF compacted = <<>> /\ ch = "."
             THEN Compact(Tail(text), compacted, last_char)
             ELSE Compact(Tail(text), Append(compacted, ch), ch)

\* apply_text_modes
ApplyTextModes(text, modes) ==
    LET removed == IF modes.remove_punctuations
                   THEN ReplaceTokens(text, modes.remove_tokens, <<>>, FALSE)
                   ELSE text
    IN  IF modes.only_period
        THEN Compact(ReplaceTokens(removed, modes.only_period_tokens, <<".">>, FALSE),
                     <<>>, "NUL")
        ELSE removed

\* remove_chars
RemoveChars(text, text_nop, comment_strip) ==
    Without(Without(text, text_nop), comment_strip)

\* the index of the first ch at or after `start`, 0 when there is none
FindFrom(text, ch, start) ==
    LET at == {i \in start..Len(text) : text[i] = ch}
    IN  IF at = {} THEN 0 ELSE CHOOSE i \in at : \A k \in at : i <= k

\* count_annotation_slots
RECURSIVE CountAnnotationSlots(_)
CountAnnotationSlots(working) ==
    LET start == FindFrom(working, NoteOpen, 1)
        end == IF start = 0 THEN 0 ELSE FindFrom(working, NoteClose, start + 1)
        len == end - start - 1
    IN  IF start = 0 \/ end = 0 THEN 0
        ELSE (IF len % 2 = 0 THEN len \div 2 ELSE len \div 2 + 1)
                + CountAnnotationSlots(SubSeq(working, 1, start - 1)
                        \o SubSeq(working, end + 1, Len(working)))

\* strip_annotations
RECURSIVE StripAnnotations(_)
StripAnnotations(text) ==
    LET start == FindFrom(text, NoteOpen, 1)
        end == IF start = 0 THEN 0 ELSE FindFrom(text, NoteClose, start + 1)
    IN  IF start = 0 \/ end = 0 THEN text
        ELSE StripAnnotations(SubSeq(text, 1, start - 1)
                                \o SubSeq(text, end + 1, Len(text)))

\* a missing_spaces without the case of a remainder of zero
MissingSpacesOfFullRow(total, row_num) ==
    IF row_num = 0 THEN 0 ELSE row_num - (total % row_num)

\* missing_spaces
MissingSpaces(total, row_num) ==
    IF row_num = 0 THEN 0
    ELSE IF total % row_num = 0 THEN 0
    ELSE row_num - (total % row_num)

\* the slots process_text counts for a line (lines 112-125)
CountedChars(c, current) ==
    LET removed == RemoveChars(current, c.text_nop, c.comment_strip_chars)
        working == IF c.book_line_flag
                   THEN Without(removed, {BookOpen, BookClose}) ELSE removed
    IN  Len(StripAnnotations(working)) + CountAnnotationSlots(working)

\* `current` of process_text for one line (lines 100-110): the line trimmed,
\* without whitespace, after the replacements, the text modes and the
\* blank-slot marker
LineCurrent(c, raw_line) ==
    ReplaceAll(
        ApplyTextModes(ApplyReplacements(Without(Trim(raw_line), Whitespace),
                                         c.replacements),
                       c.text_modes),
        <<"@">>, <<" ">>)

\* the body of the loop of process_text for one line (lines 100-133): what the
\* line adds to the result
ProcessLine(c, raw_line) ==
    LET trimmed == Trim(raw_line)
        filtered == Without(trimmed, Whitespace)
        current == LineCurrent(c, raw_line)
        spaces == MissingSpaces(CountedChars(c, current), c.row_num)
    IN  IF trimmed = <<>> \/ filtered = <<>> THEN <<>>
        ELSE current \o (IF spaces > 0 /\ spaces < c.row_num
                         THEN Repeat(" ", spaces) ELSE <<>>)

\* process_text
RECURSIVE ProcessText(_, _)
ProcessText(c, content) ==
    IF content = <<>> THEN <<>>
    ELSE ProcessLine(c, Head(content)) \o ProcessText(c, Tail(content))

(***************************************************************************)
(* One source line through process_text and then, as the text of the one   *)
(* chapter of the run, through the engine from slot 0.                     *)
(***************************************************************************)
MaxLineLen == 3        \* characters of the source line

MaxLineRows == 4       \* row_num of the line runs ranges over 1..MaxLineRows

LineAlphabet == {"a", "n", "r", "@", PageBreak, HalfJump, BandJump, LastColumn,
                 BookOpen, NoteOpen, NoteClose}

Lines == UNION {[1..n -> LineAlphabet] : n \in 1..MaxLineLen}

\* the annotation brackets of a text are well-formed: each opening bracket is
\* closed before the next one opens, and no closing bracket stands alone
RECURSIVE WellFormed(_, _)
WellFormed(text, open) ==
    IF text = <<>> THEN ~open
    ELSE IF Head(text) = NoteOpen THEN ~open /\ WellFormed(Tail(text), TRUE)
    ELSE IF Head(text) = NoteClose THEN open /\ WellFormed(Tail(text), FALSE)
    ELSE WellFormed(Tail(text), open)

InitLine ==
    \E row_num \in 1..MaxLineRows, leaf_col \in 1..MaxColumns,
       book_line_flag \in BOOLEAN :
        \E multirows \in {Disabled} \cup {HorizontalLeaf(r) : r \in 2..row_num},
           line \in {l \in Lines : WellFormed(l, FALSE)} :
            LET c == Config(row_num, leaf_col, multirows, book_line_flag, <<>>, 1,
                            OneChapter(<<>>))
            IN  InitRun([c EXCEPT !.entries = OneChapter(ProcessText(c, <<line>>)),
                                  !.source = line])

SpecLine == InitLine /\ [][Next]_vars

\* C4: when the engine has read, from slot 0, the last character of the padded
\* line process_text made of a source line, the slot counter is on a column
\* boundary.
LineEndsOnColumnBoundary ==
    pc = "flush" /\ cfg.source # <<>> => pcnt % layout.rows_per_column = 0

(***************************************************************************)
(* Termination of process_entry and of the annotation layout.  The code    *)
(* runs one step after another, so a run that can take a step takes it:    *)
(* SpecFair is the run over one chapter with weak fairness of Next.        *)
(***************************************************************************)
\* the runs of build_plan over a corpus of one chapter of MaxItems items, for
\* every geometry, bookline setting and cap of Init
InitFair ==
    \E row_num \in 1..MaxRowNum, leaf_col \in 1..MaxColumns,
       book_line_flag \in BOOLEAN,
       test_pages \in {<<>>} \cup {<<n>> : n \in 0..MaxTestPages} :
        \E multirows \in {Disabled} \cup {HorizontalLeaf(r) : r \in 2..row_num},
           entries \in Corpora(1, 0) :
            InitRun(Config(row_num, leaf_col, multirows, book_line_flag,
                           test_pages, 1, entries))

SpecFair == InitFair /\ [][Next]_vars /\ WF_vars(Next)

\* the characters the `while let Some(ch) = chars.next()` loop can still read
Unread == Len(chars) + budget

\* every iteration of the 'outer loop of render_comments shortens the queue,
\* or finalizes a page and is followed by an iteration that is no finalize;
\* the loop ends with the queue empty
QueueShortens(queue, log) ==
    /\ \A k \in 1..Len(log) :
        LET before == IF k = 1 THEN Len(queue) ELSE log[k - 1].left
        IN  /\ log[k].kind \in {"pack", "drain", "finalize"}
            /\ log[k].kind # "finalize" => log[k].left < before
            /\ log[k].kind = "finalize" =>
                    /\ log[k].left = before
                    /\ k < Len(log)
                    /\ log[k + 1].kind # "finalize"
    /\ queue # <<>> => log # <<>> /\ log[Len(log)].left = 0

\* C11: process_entry terminates on every finite chapter stream and valid
\* geometry: each iteration of its character loop reads at least one character
\* of the stream, a run inside process_entry leaves it, and in every annotation
\* layout each iteration of the loop of render_comments either strictly
\* shortens the remaining queue or finalizes a page after which the next
\* iteration shortens it.
ProcessEntryTerminates ==
    /\ [](ev.op = "note" => QueueShortens(ev.queue, ev.log))
    /\ [][pc = "entry" /\ pc' \in {"entry", "break"} => Unread' < Unread]_vars
    /\ (pc = "entry") ~> (pc \in {"loop", "flush", "done"})

\* an annotation layout that packed, finalized a page and packed again, and
\* emptied the stream with it: the character loop has nothing left to read
ProcessEntryTerminatesWitness ==
    /\ pc = "entry"
    /\ ev.op = "note"
    /\ Unread = 0
    /\ \E k \in 2..(Len(ev.log) - 1) :
            /\ ev.log[k].kind = "finalize"
            /\ ev.log[k - 1].kind = "pack"
            /\ ev.log[k + 1].kind = "pack"

(***************************************************************************)
(* The slot counter and the grid.  text_nop and text_rotate are two lists  *)
(* of the configuration, read independently by lines 133-134 of            *)
(* process_entry: SpecClasses runs build_plan over one chapter for every   *)
(* choice of the two lists among the marks "n" and "r".                    *)
(***************************************************************************)
InitClasses ==
    \E row_num \in 1..MaxRowNum, leaf_col \in 1..MaxColumns,
       book_line_flag \in BOOLEAN,
       text_nop \in SUBSET {"n", "r"}, text_rotate \in SUBSET {"n", "r"} :
        \E multirows \in {Disabled} \cup {HorizontalLeaf(r) : r \in 2..row_num},
           entries \in Corpora(1, 0) :
            InitRun([Config(row_num, leaf_col, multirows, book_line_flag, <<>>, 1,
                            entries)
                        EXCEPT !.text_nop = text_nop,
                               !.text_rotate = text_rotate])

SpecClasses == InitClasses /\ [][Next]_vars

\* C12: for every stream, every choice of the non-slot and rotated mark lists
\* and every valid geometry, the slot counter is in 0..capacity after every
\* step of process_entry and of render_comments, and process_entry never
\* returns the 'layout index out of range' error.
SlotWithinCapacity ==
    /\ pcnt \in 0..layout.per_page
    /\ \A k \in 1..Len(ev.log) :
            /\ ev.log[k].slot \in 0..layout.per_page
            /\ ev.log[k].after \in 0..layout.per_page
    /\ result.err # "layout index out of range"

(***************************************************************************)
(* Chapters and pages.                                                     *)
(***************************************************************************)
\* the page numbered n of a state: the in-progress page or a pushed one, and
\* a page of number 0 when there is none
PageNumbered(n, cur, pushed) ==
    IF \E i \in 1..Len(pushed) : pushed[i].number = n
    THEN pushed[CHOOSE i \in 1..Len(pushed) : pushed[i].number = n]
    ELSE IF cur.number = n THEN cur
    ELSE PagePlan(0, <<>>, 0, 0)

\* C13: chapters never share a page.  A chapter that begins while the
\* in-progress page holds glyphs pushes that page and starts on a fresh page
\* numbered one higher, with slot 0 when it is laid out; every glyph a step
\* lays is on a page whose running title is the computed title of the chapter
\* being read; and a page that holds glyphs keeps its title, in progress and
\* once pushed.  Titles of different chapters differ, so every page holds
\* glyphs of exactly one chapter, under that chapter's title.
ChaptersNeverSharePage ==
    [][/\ (ev'.op = "chapter" /\ current_page.glyphs # 0 /\ pc' # "done") =>
            /\ pages' = Append(pages, current_page)
            /\ current_page'.number = current_page.number + 1
            /\ current_page'.glyphs = 0
            /\ current_page'.title = ComputeEntryTitle(cfg, idx)
            /\ pc' = "entry" => pcnt' = 0
       /\ \A k \in 1..Len(ev'.emitted) :
            PageNumbered(ev'.emitted[k].page, current_page', pages').title
                = ComputeEntryTitle(cfg, idx)
       /\ (current_page.glyphs # 0 /\ current_page'.number = current_page.number)
            => current_page'.title = current_page.title
       /\ Len(pages') >= Len(pages) /\ SubSeq(pages', 1, Len(pages)) = pages
       /\ \A i \in 1..MaxChapter : \A j \in 1..MaxChapter :
            i # j => ComputeEntryTitle(cfg, i) # ComputeEntryTitle(cfg, j)
      ]_vars

\* the plan of a run over two chapters: the second chapter began while the
\* page of the first held glyphs, and the plan holds a page of each
ChaptersNeverSharePageWitness ==
    /\ Returned
    /\ Len(pages) = 2
    /\ pages[1].title = ComputeEntryTitle(cfg, 1)
    /\ pages[2].title = ComputeEntryTitle(cfg, 2)
    /\ pages[2].number = pages[1].number + 1

(***************************************************************************)
(* The page cap.                                                           *)
(***************************************************************************)
\* a cap is configured and the generated-page count has come to it
CapReached ==
    cfg.test_pages # <<>> /\ generated_pages >= cfg.test_pages[1]

\* the last step flushed a page at a `%`, at a full page or at a chapter
\* boundary, and the count has come to the cap
FlushHitCap ==
    /\ ev.op \in {"%", "plain", "rot", "chapter"}
    /\ ev.pushed >= 1
    /\ CapReached

\* the run has stopped reading: the character loop was left by a break, or
\* the chapter loop was left
Stopped == pc \in {"break", "flush", "done"}

TrailingPageFlushedWitness ==
    /\ Returned
    /\ cfg.test_pages = <<1>>
    /\ ~CapReached
    /\ ev.op = "finish"
    /\ ev.pushed = 1

(***************************************************************************)
(* The padding of process_text.                                            *)
(***************************************************************************)
\* C15: for the counted length L of a line and rowsPerLeaf R >= 1, the padding
\* missing_spaces computes is in 0..R-1 and makes L + missing a multiple of
\* R, and the line process_text emits is the line followed by exactly
\* `missing` spaces.
PaddingCompletesRow ==
    cfg.source # <<>> =>
        LET current == LineCurrent(cfg, cfg.source)
            L == CountedChars(cfg, current)
            R == cfg.row_num
            missing == MissingSpaces(L, R)
        IN  /\ 0 <= missing
            /\ missing < R
            /\ (L + missing) % R = 0
            /\ CorpusEntry(cfg, 1).data = current \o Repeat(" ", missing)

\* a line holding an annotation block, counted as 1 slot and padded by 1
\* space to a row of 2, after the run over it has ended
PaddingCompletesRowWitness ==
    /\ cfg.source # <<>>
    /\ cfg.row_num = 2
    /\ NoteOpen \in {cfg.source[i] : i \in 1..Len(cfg.source)}
    /\ CountedChars(cfg, LineCurrent(cfg, cfg.source)) = 1
    /\ Len(CorpusEntry(cfg, 1).data) = Len(cfg.source) + 1
    /\ pc = "done"

(***************************************************************************)
(* process_text run again on its own output.  SpecReprocess draws a source *)
(* line, a row length and the replacement rules, and applies process_text  *)
(* to the line and then to what the first pass emitted: idx counts the     *)
(* passes made, chars is the text the next pass reads and ev.queue the     *)
(* text the last pass read.                                                *)
(***************************************************************************)
MaxPasses == 2         \* passes of process_text over a line

ReprocessAlphabet == {"a", "n", "@", " ", PageBreak, NoteOpen, NoteClose}

\* the ReplacementRules of the runs: none, or one pair that turns "n" into "a"
RuleSets ==
    {[comma_pairs |-> <<>>, number_pairs |-> <<>>, delete_tokens |-> <<>>],
     [comma_pairs |-> <<<<"n", <<"a">>>>>>, number_pairs |-> <<>>,
      delete_tokens |-> <<>>]}

InitReprocess ==
    \E row_num \in 1..MaxLineRows, rules \in RuleSets,
       line \in {l \in UNION {[1..n -> ReprocessAlphabet] : n \in 1..MaxLineLen} :
                    WellFormed(l, FALSE)} :
        LET c == Config(row_num, 1, Disabled, FALSE, <<>>, 1, OneChapter(<<>>))
        IN  /\ cfg = [c EXCEPT !.replacements = rules, !.source = line]
            /\ layout = LayoutBuild(c.row_num, c.row_delta_y, c.canvas, c.multirows)
            /\ pc = "text"
            /\ idx = 0
            /\ chars = line
            /\ budget = 0
            /\ pcnt = 0
            /\ next_page_number = 1
            /\ generated_pages = 0
            /\ bookline_active = FALSE
            /\ last_pos = NoCell
            /\ current_page = PagePlan(1, <<>>, 0, 0)
            /\ pages = <<>>
            /\ outlines = <<>>
            /\ result = NoResult
            /\ ev = NoEvent

\* one call of process_text on a content of one line
Reprocess ==
    /\ pc = "text"
    /\ idx < MaxPasses
    /\ chars' = ProcessText(cfg, <<chars>>)
    /\ idx' = idx + 1
    /\ ev' = Event("process_text", None, chars, <<>>)
    /\ UNCHANGED <<pc, cfg, layout, budget, pcnt, next_page_number,
                   generated_pages, bookline_active, last_pos, current_page,
                   pages, outlines, result>>

SpecReprocess == InitReprocess /\ [][Reprocess]_vars

\* the padding process_text decides for a line
LinePadding(c, raw_line) ==
    MissingSpaces(CountedChars(c, LineCurrent(c, raw_line)), c.row_num)

\* no rule of the replacement tables and no text mode changes the line
NoRuleApplies(c, raw_line) ==
    LET filtered == Without(Trim(raw_line), Whitespace)
    IN  ApplyTextModes(ApplyReplacements(filtered, c.replacements), c.text_modes)
            = filtered

\* C16: on a line to which no replacement rule applies, process_text run on
\* its own output gives the same output and decides the same padding, and
\* the padding is 0 when the counted length of the line is a multiple of
\* rowsPerLeaf.
ReprocessIsIdempotent ==
    (pc = "text" /\ idx = 2 /\ NoRuleApplies(cfg, cfg.source)) =>
        /\ chars = ev.queue
        /\ LinePadding(cfg, ev.queue) = LinePadding(cfg, cfg.source)
        /\ CountedChars(cfg, LineCurrent(cfg, cfg.source)) % cfg.row_num = 0
                => LinePadding(cfg, cfg.source) = 0

(***************************************************************************)
(* The running title.  SpecTitle draws a corpus (which ordinals hold an    *)
(* entry, the prologue 0 and the appendix among them), a postfix pattern   *)
(* and a chapter ordinal, and computes the title build_plan stamps on the  *)
(* page of that chapter.                                                   *)
(***************************************************************************)
AppendixOrdinal == 999     \* "999.txt" of load_corpus

\* the ordinals a corpus of the title runs may hold
TitleOrdinals == {0, 1, 2, 12, AppendixOrdinal, AppendixOrdinal + 1}

\* the postfix patterns of the title runs: none, one without placeholder, and
\* patterns with one and with two placeholders
Postfixes == {<<>>, <<<<"v">>>>, <<<<"v", "X">>>>, <<<<"X", "v", "X">>>>}

InitTitle ==
    \E present \in SUBSET TitleOrdinals, postfix \in Postfixes :
        \E i \in present :
            LET c == Config(1, 1, Disabled, FALSE, <<>>, i, OneChapter(<<>>))
            IN  /\ cfg = [c EXCEPT
                            !.entries = [k \in TitleOrdinals |->
                                            IF k \in present THEN EntryOf(<<>>)
                                            ELSE NoEntry],
                            !.has_text000 = (0 \in present),
                            !.has_text999 = (AppendixOrdinal \in present),
                            !.postfix = postfix,
                            !.from = i]
                /\ layout = LayoutBuild(c.row_num, c.row_delta_y, c.canvas,
                                        c.multirows)
                /\ pc = "title"
                /\ idx = i
                /\ chars = <<>>
                /\ budget = 0
                /\ pcnt = 0
                /\ next_page_number = 1
                /\ generated_pages = 0
                /\ bookline_active = FALSE
                /\ last_pos = NoCell
                /\ current_page = PagePlan(1, <<>>, 0, 0)
                /\ pages = <<>>
                /\ outlines = <<>>
                /\ result = NoResult
                /\ ev = NoEvent

\* build_plan, lines 69 and 89: the title of chapter idx is computed and
\* stamped on the empty in-progress page
StampTitle ==
    /\ pc = "title"
    /\ CorpusEntry(cfg, idx) # NoEntry
    /\ current_page' = [current_page EXCEPT !.title = ComputeEntryTitle(cfg, idx)]
    /\ pc' = "titled"
    /\ ev' = Event("title", None, <<>>, <<>>)
    /\ UNCHANGED <<cfg, layout, idx, chars, budget, pcnt, next_page_number,
                   generated_pages, bookline_active, last_pos, pages, outlines,
                   result>>

SpecTitle == InitTitle /\ [][StampTitle]_vars

\* C17: the title of chapter ordinal i is the book title alone when no postfix
\* pattern is configured, and otherwise the book title followed by: the
\* preface marker when chapterId is 0, where chapterId is i, less one when the
\* corpus has the prologue entry (chapter ids are natural numbers: ordinal 0
\* keeps id 0); else the appendix marker when the corpus has the appendix
\* entry and i is its highest ordinal holding an entry; else the pattern with
\* every placeholder replaced by the rendered numeral of chapterId.
TitleFollowsChapterId ==
    pc = "titled" =>
        LET chapterId == IF cfg.has_text000 /\ idx > 0 THEN idx - 1 ELSE idx
            highest == CHOOSE k \in TitleOrdinals :
                            /\ cfg.entries[k] # NoEntry
                            /\ \A j \in TitleOrdinals :
                                    cfg.entries[j] # NoEntry => j <= k
            numeral == NumeralRender(cfg, chapterId)
            pattern == cfg.postfix[1]
            replaced == [k \in 1..Len(pattern) |->
                            IF pattern[k] = "X" THEN numeral
                            ELSE <<pattern[k]>>]
        IN  current_page.title =
                IF cfg.postfix = <<>> THEN cfg.title
                ELSE IF chapterId = 0 THEN cfg.title \o <<"preface">>
                ELSE IF cfg.has_text999 /\ idx = highest
                THEN cfg.title \o <<"appendix">>
                ELSE cfg.title \o Flatten(replaced)

\* chapter 1 of a corpus with a prologue, under a pattern: the preface title
TitleFollowsChapterIdWitness ==
    /\ pc = "titled"
    /\ cfg.has_text000
    /\ idx = 1
    /\ cfg.postfix = <<<<"X", "v", "X">>>>
    /\ current_page.title = cfg.title \o <<"preface">>

(***************************************************************************)
(* Numerals.  SpecNumeral draws a number and a numeral table and renders   *)
(* the number: idx is the number, chars the string render returned.        *)
(***************************************************************************)
MaxNumeral == 120      \* the numbers rendered range over 0..MaxNumeral

\* the numeral tables of the runs: empty, or with entries for some numbers
NumeralTables ==
    {<<>>, (1 :> <<"one">>), (0 :> <<"zero">>) @@ (12 :> <<"ten", "two">>)}

InitNumeral ==
    \E n \in 0..MaxNumeral, table \in NumeralTables :
        LET c == Config(1, 1, Disabled, FALSE, <<>>, 1, OneChapter(<<>>))
        IN  /\ cfg = [c EXCEPT !.numerals = table]
            /\ layout = LayoutBuild(c.row_num, c.row_delta_y, c.canvas, c.multirows)
            /\ pc = "numeral"
            /\ idx = n
            /\ chars = <<>>
            /\ budget = 0
            /\ pcnt = 0
            /\ next_page_number = 1
            /\ generated_pages = 0
            /\ bookline_active = FALSE
            /\ last_pos = NoCell
            /\ current_page = PagePlan(1, <<>>, 0, 0)
            /\ pages = <<>>
            /\ outlines = <<>>
            /\ result = NoResult
            /\ ev = NoEvent

\* one call of NumeralMap::render
Render ==
    /\ pc = "numeral"
    /\ chars' = NumeralRender(cfg, idx)
    /\ pc' = "rendered"
    /\ ev' = Event("render", None, <<>>, <<>>)
    /\ UNCHANGED <<cfg, layout, idx, budget, pcnt, next_page_number,
                   generated_pages, bookline_active, last_pos, current_page,
                   pages, outlines, result>>

SpecNumeral == InitNumeral /\ [][Render]_vars

\* the number of decimal digits of n
RECURSIVE DecimalDigits(_)
DecimalDigits(n) == IF n < 10 THEN 1 ELSE 1 + DecimalDigits(n \div 10)

RECURSIVE PowerOfTen(_)
PowerOfTen(k) == IF k = 0 THEN 1 ELSE 10 * PowerOfTen(k - 1)

\* the symbol of the fixed alphabet for a decimal digit
DigitSymbol(d) ==
    <<"d0", "d1", "d2", "d3", "d4", "d5", "d6", "d7", "d8", "d9">>[d + 1]

\* C18: render(n) is the table string when n has a table entry; otherwise it
\* holds one symbol of the 10-symbol alphabet per decimal digit of n, most
\* significant digit first, and is the single zero symbol for n = 0.
RenderIsTableOrDigits ==
    pc = "rendered" =>
        IF idx \in DOMAIN cfg.numerals THEN chars = cfg.numerals[idx]
        ELSE /\ Len(chars) = DecimalDigits(idx)
             /\ \A k \in 1..Len(chars) :
                    chars[k] = DigitSymbol(
                        (idx \div PowerOfTen(Len(chars) - k)) % 10)
             /\ idx = 0 => chars = <<"d0">>

\* 12 rendered without a table entry: the symbol for 1, then the symbol for 2
RenderIsTableOrDigitsWitness ==
    /\ pc = "rendered"
    /\ idx = 12
    /\ 12 \notin DOMAIN cfg.numerals
    /\ chars = <<"d1", "d2">>

(***************************************************************************)
(* Font resolution.  SpecFont draws the glyph sets of the font slots, a    *)
(* text stack, the variant-fallback flag and a character, and resolves the *)
(* character: first by pick_font, then by pick_with_try_st.  chars holds   *)
(* the character (after a step, the character the resolver returned),      *)
(* ev.ch the character asked for and result.at the slot returned (0 for    *)
(* None).                                                                  *)
(***************************************************************************)
MaxSlots == 2          \* font slots of the font manager

MaxStack == 3          \* entries of a font stack

\* the font stacks: slot numbers in any order, repeated, 0 and past the slots
FontStacks == UNION {[1..n -> 0..(MaxSlots + 1)] : n \in 0..MaxStack}

InitFont ==
    \E slots \in [1..MaxSlots -> SUBSET {"a", "f"}], stack \in FontStacks,
       try_st \in BOOLEAN, ch \in {"a", "j"} :
        LET c == Config(1, 1, Disabled, FALSE, <<>>, 1, OneChapter(<<>>))
        IN  /\ cfg = [c EXCEPT !.slots = slots, !.text_stack = stack,
                               !.try_st = try_st]
            /\ layout = LayoutBuild(c.row_num, c.row_delta_y, c.canvas, c.multirows)
            /\ pc = "font"
            /\ idx = 1
            /\ chars = <<ch>>
            /\ budget = 0
            /\ pcnt = 0
            /\ next_page_number = 1
            /\ generated_pages = 0
            /\ bookline_active = FALSE
            /\ last_pos = NoCell
            /\ current_page = PagePlan(1, <<>>, 0, 0)
            /\ pages = <<>>
            /\ outlines = <<>>
            /\ result = NoResult
            /\ ev = NoEvent

\* one call of FontManager::pick_font on the text stack
PickFontStep ==
    /\ pc = "font"
    /\ LET pick == PickFont(cfg, chars[1], cfg.text_stack)
       IN  result' = [ok |-> pick # 0, err |-> None, at |-> pick]
    /\ pc' = "picked"
    /\ ev' = Event("pick_font", chars[1], <<>>, <<>>)
    /\ UNCHANGED <<cfg, layout, idx, chars, budget, pcnt, next_page_number,
                   generated_pages, bookline_active, last_pos, current_page,
                   pages, outlines>>

\* one call of LayoutEngine::pick_with_try_st on the text stack
PickWithTryStStep ==
    /\ pc = "picked"
    /\ LET pick == PickWithTrySt(cfg, ev.ch, cfg.text_stack)
       IN  /\ result' = [ok |-> pick[2] # 0, err |-> None, at |-> pick[2]]
           /\ chars' = <<pick[1]>>
    /\ pc' = "resolved"
    /\ ev' = Event("pick_with_try_st", ev.ch, <<>>, <<>>)
    /\ UNCHANGED <<cfg, layout, idx, budget, pcnt, next_page_number,
                   generated_pages, bookline_active, last_pos, current_page,
                   pages, outlines>>

NextFont ==
    \/ PickFontStep
    \/ PickWithTryStStep

SpecFont == InitFont /\ [][NextFont]_vars

\* the places of the text stack whose slot holds a font with the glyph of ch
StackHits(ch) ==
    {k \in 1..Len(cfg.text_stack) :
        /\ cfg.text_stack[k] \in 1..Len(cfg.slots)
        /\ ch \in cfg.slots[cfg.text_stack[k]]}

\* C19: pick_font returns the first slot of the stack, in stack order, whose
\* font holds the glyph, and nothing when no slot of the stack does;
\* pick_with_try_st returns that slot with the character unchanged whenever
\* there is one.  So a character held by the first slot of the stack resolves
\* to that slot whatever the later slots hold.
FirstSlotWins ==
    pc \in {"picked", "resolved"} =>
        LET hits == StackHits(ev.ch)
            first == CHOOSE k \in hits : \A j \in hits : k <= j
        IN  IF hits = {} THEN pc = "picked" => ~result.ok /\ result.at = 0
            ELSE /\ result.ok
                 /\ result.at = cfg.text_stack[first]
                 /\ chars = <<ev.ch>>
                 /\ 1 \in hits => result.at = cfg.text_stack[1]

\* a character held by both slots, resolved under a stack that lists slot 2
\* before slot 1: slot 2 is returned
FirstSlotWinsWitness ==
    /\ pc = "resolved"
    /\ ev.ch = "a"
    /\ cfg.text_stack = <<0, 2, 1>>
    /\ "a" \in cfg.slots[1] \cap cfg.slots[2]
    /\ result.at = 2

(***************************************************************************)
(* The errors of Layout::build.                                            *)
(***************************************************************************)
\* C20: Layout::build returns an error and no grid when the column count is
\* zero, when rowsPerLeaf is zero, or when a multi-row mode is requested whose
\* band count is zero or does not divide rowsPerLeaf; for every other input
\* it returns a grid.
BuildFailsOnBadGeometry ==
    pc = "built" =>
        LET bad == \/ cfg.canvas.leaf_col = 0
                   \/ cfg.row_num = 0
                   \/ /\ cfg.multirows.kind \in {"HorizontalLeaf", "HorizontalPage"}
                      /\ \/ cfg.multirows.rows = 0
                         \/ cfg.row_num % cfg.multirows.rows # 0
        IN  /\ bad => /\ ~layout.ok
                      /\ ~result.ok
                      /\ DOMAIN layout = {"ok", "err"}
            /\ ~bad => /\ layout.ok
                       /\ result.ok
                       /\ {"per_page", "pos_l", "pos_r"} \subseteq DOMAIN layout
                       /\ Len(layout.pos_l) = cfg.canvas.leaf_col * cfg.row_num + 1

\* Layout::build has refused 3 rows per leaf in 2 bands
BuildFailsOnBadGeometryWitness ==
    /\ pc = "built"
    /\ cfg.row_num = 3
    /\ cfg.canvas.leaf_col = 2
    /\ cfg.multirows = HorizontalPage(2)
    /\ ~layout.ok
    /\ layout.err = "row_num not divisible by multirows"

(***************************************************************************)
(* renderer.rs: render_document.  SpecRender draws a DocumentPlan whose    *)
(* page numbers strictly increase, as DocumentPlan::validate requires and  *)
(* build_plan produces, with outline entries that name any page number,    *)
(* and the numbered-directory flag.  pages and outlines hold the plan,     *)
(* idx the number of plan pages rendered, chars the local Vec of PdfPage   *)
(* and layout the bookmarks of the PdfDocument.  Fonts, stamps and the     *)
(* output file belong to the environment: each of the three may fail.      *)
(***************************************************************************)
MaxPlanPages == 3      \* pages of a drawn plan
MaxOutlines == 2       \* outline entries of a drawn plan

\* the page-number lists of the drawn plans: strictly increasing, with holes
PlanNumbers ==
    {s \in UNION {[1..n -> 1..(MaxPlanPages + 1)] : n \in 0..MaxPlanPages} :
        \A i \in 1..(Len(s) - 1) : s[i] < s[i + 1]}

\* the outline lists of the drawn plans: any title, any page number, one past
\* the highest page of a plan included
PlanOutlines ==
    UNION {[1..n -> [title : {"T1", "T2"}, page_number : 1..(MaxPlanPages + 2)]] :
                n \in 0..MaxOutlines}

InitRender ==
    \E numbers \in PlanNumbers, outs \in PlanOutlines, directory \in BOOLEAN :
        LET c == Config(1, 1, Disabled, FALSE, <<>>, 1, OneChapter(<<>>))
        IN  /\ cfg = c @@ [directory |-> directory]
            /\ layout = [bookmarks |-> <<>>]
            /\ pc = "render"
            /\ idx = 0
            /\ chars = <<>>
            /\ budget = 0
            /\ pcnt = 0
            /\ next_page_number = 1
            /\ generated_pages = 0
            /\ bookline_active = FALSE
            /\ last_pos = NoCell
            /\ current_page = PagePlan(1, <<>>, 0, 0)
            /\ pages = [i \in 1..Len(numbers) |-> PagePlan(numbers[i], <<"T">>, 1, 0)]
            /\ outlines = outs
            /\ result = NoResult
            /\ ev = NoEvent

\* build_outline_map, read at one page number: the titles of the outline
\* entries of that number, in outline order; nothing without the directory flag
RECURSIVE OutlineMapGet(_, _, _)
OutlineMapGet(directory, plan_outlines, number) ==
    IF ~directory \/ plan_outlines = <<>> THEN <<>>
    ELSE (IF Head(plan_outlines).page_number = number
          THEN <<Head(plan_outlines).title>> ELSE <<>>)
            \o OutlineMapGet(directory, Tail(plan_outlines), number)

\* a bookmark target that leaves the cover out
PdfPageNumberWithoutCover(pdf_pages) == Len(pdf_pages) - 1

\* pdf_page_number (line 76): the length of the PdfPage list after the push
PdfPageNumber(pdf_pages) == Len(pdf_pages)

\* render_document returning an error: no file is written
RenderError(what) ==
    /\ result' = [ok |-> FALSE, err |-> what, at |-> idx]
    /\ pc' = "rendered"
    /\ ev' = Event("render_error", None, <<>>, <<>>)
    /\ UNCHANGED <<cfg, layout, idx, chars, budget, pcnt, next_page_number,
                   generated_pages, bookline_active, last_pos, current_page,
                   pages, outlines>>

\* lines 59-86: fonts, outline map, stamps, images and the cover page; a font
\* that does not parse or a stamp list that cannot be read is an error
RenderCover ==
    /\ pc = "render"
    /\ \/ RenderError("failed to load font")
       \/ /\ chars' = <<[kind |-> "cover", number |-> 0]>>
          /\ pc' = "pages"
          /\ ev' = Event("cover", None, <<>>, <<>>)
          /\ UNCHANGED <<cfg, layout, idx, budget, pcnt, next_page_number,
                         generated_pages, bookline_active, last_pos, current_page,
                         pages, outlines, result>>

\* one iteration of `for page in &plan.pages` (lines 88-104); a stamp image
\* that cannot be read is an error
RenderPage ==
    /\ pc = "pages"
    /\ idx < Len(pages)
    /\ \/ RenderError("stamp image")
       \/ LET page == pages[idx + 1]
              pdf_pages == Append(chars, [kind |-> "page", number |-> page.number])
              titles == OutlineMapGet(cfg.directory, outlines, page.number)
          IN  /\ chars' = pdf_pages
              /\ layout' = [layout EXCEPT !.bookmarks =
                                @ \o [k \in 1..Len(titles) |->
                                        [title |-> titles[k],
                                         page |-> PdfPageNumber(pdf_pages)]]]
              /\ idx' = idx + 1
              /\ ev' = Event("page", None, <<>>, <<>>)
              /\ UNCHANGED <<pc, cfg, budget, pcnt, next_page_number,
                             generated_pages, bookline_active, last_pos,
                             current_page, pages, outlines, result>>

\* lines 106-112: the pages are handed to the document and the file is written
RenderSave ==
    /\ pc = "pages"
    /\ idx = Len(pages)
    /\ \/ RenderError("File::create")
       \/ /\ result' = [ok |-> TRUE, err |-> None, at |-> 0]
          /\ pc' = "rendered"
          /\ ev' = Event("save", None, <<>>, <<>>)
          /\ UNCHANGED <<cfg, layout, idx, chars, budget, pcnt, next_page_number,
                         generated_pages, bookline_active, last_pos, current_page,
                         pages, outlines>>

NextRender ==
    \/ RenderCover
    \/ RenderPage
    \/ RenderSave

SpecRender == InitRender /\ [][NextRender]_vars

\* the places of the plan whose page carries the number n
PlacesOf(n) == {i \in 1..Len(pages) : pages[i].number = n}

\* the outline entries that name a page of the plan
LiveOutlines == {k \in 1..Len(outlines) : PlacesOf(outlines[k].page_number) # {}}

\* C21: a render_document that succeeds has emitted the cover page followed by
\* one PDF page per plan page, in plan order; with the numbered-directory
\* flag on, the bookmarks are one per outline entry that names a plan page,
\* each with the entry's title and targeting the place of that page in the
\* plan plus one, and there is at least one bookmark when an entry names a
\* plan page; with the flag off there is no bookmark.
RenderEmitsPagesAndBookmarks ==
    pc = "rendered" /\ result.ok =>
        /\ Len(chars) = Len(pages) + 1
        /\ chars[1].kind = "cover"
        /\ \A i \in 1..Len(pages) :
                chars[i + 1] = [kind |-> "page", number |-> pages[i].number]
        /\ IF cfg.directory
           THEN /\ Len(layout.bookmarks) = Cardinality(LiveOutlines)
                /\ \A b \in {layout.bookmarks[j] : j \in 1..Len(layout.bookmarks)}
                            \cup {[title |-> outlines[k].title,
                                   page |-> 1 + CHOOSE i \in PlacesOf(outlines[k].page_number) : TRUE] :
                                        k \in LiveOutlines} :
                        Cardinality({j \in 1..Len(layout.bookmarks) :
                                        layout.bookmarks[j] = b})
                            = Cardinality({k \in LiveOutlines :
                                /\ outlines[k].title = b.title
                                /\ b.page - 1 \in PlacesOf(outlines[k].page_number)})
                /\ LiveOutlines # {} => layout.bookmarks # <<>>
           ELSE layout.bookmarks = <<>>

\* a plan of three pages numbered 1, 3, 4 rendered with the flag on: the two
\* outline entries name page 3, and both bookmarks target PDF page 3
RenderEmitsPagesAndBookmarksWitness ==
    /\ pc = "rendered"
    /\ result.ok
    /\ cfg.directory
    /\ Len(pages) = 3
    /\ pages[2].number = 3
    /\ Len(outlines) = 2
    /\ outlines[1].page_number = 3
    /\ outlines[2].page_number = 3
    /\ layout.bookmarks = <<[title |-> outlines[1].title, page |-> 3],
                            [title |-> outlines[2].title, page |-> 3]>>

(***************************************************************************)
(* The '&' marker.                                                         *)
(***************************************************************************)
\* the first cell of the last column of the page (of its last band, when the
\* page has bands), from the geometry of the canvas
LastColumnFirstCell ==
    Cell(BaseX(cfg.canvas, cfg.canvas.leaf_col),
         PosY(cfg.canvas, cfg.row_num, layout.rows_per_column, cfg.row_delta_y,
              layout.multirows_bands - 1, 1))

\* capacity - rowsPerColumn: the slot before the first row of the last column
LastColumnStart == layout.per_page - layout.rows_per_column

\* C22: a '&' read at slot s, with start = capacity - rowsPerColumn, first
\* discards the row padding (rowsPerLeaf - 1 characters, or what is left of
\* the stream); it leaves the slot at start when s <= start + 1 and at s
\* otherwise, emits no glyph and no line, and finalizes and pushes no page;
\* a slot-consuming character read at slot = start is laid on the first row
\* of the last column.
LastColumnJump ==
    /\ [](/\ ev.op = "&" =>
                /\ ev.slot <= LastColumnStart + 1 => pcnt = LastColumnStart
                /\ ev.slot > LastColumnStart + 1 => pcnt = ev.slot
                /\ ev.emitted = <<>>
                /\ ev.drawn = <<>>
                /\ ev.finalized = 0
                /\ ev.pushed = 0
          /\ (ev.op \in {"plain", "rot"} /\ ev.slot = LastColumnStart) =>
                \A k \in 1..Len(ev.emitted) :
                    ~ev.emitted[k].glyph.is_nop =>
                        ev.emitted[k].glyph.pos = LastColumnFirstCell)
    /\ [][ev'.op = "&" =>
            \/ Unread' = Unread - cfg.row_num
            \/ Unread' = 0 /\ Unread <= cfg.row_num + MaxItems]_vars

\* a '&' read below the start of the last column moved the slot there
LastColumnJumpWitness ==
    /\ ev.op = "&"
    /\ 0 < ev.slot
    /\ ev.slot < layout.per_page - layout.rows_per_column
    /\ pcnt = layout.per_page - layout.rows_per_column

\* a '&' read one slot past the start of the last column moved the slot back
LastColumnJumpBackWitness ==
    /\ ev.op = "&"
    /\ ev.slot = layout.per_page - layout.rows_per_column + 1
    /\ pcnt = ev.slot - 1

(***************************************************************************)
(* The '^' marker.  SpecBands runs build_plan over one chapter on grids    *)
(* of up to MaxBandColumns columns in each mode: Disabled, HorizontalLeaf  *)
(* and HorizontalPage, the latter two with every band count that divides   *)
(* the rows of the leaf.                                                   *)
(***************************************************************************)
MaxBandColumns == 3    \* leaf_col of the band runs ranges over 1..MaxBandColumns

InitBands ==
    \E row_num \in 1..MaxRowNum, leaf_col \in 1..MaxBandColumns,
       book_line_flag \in BOOLEAN :
        \E multirows \in {Disabled}
                \cup {HorizontalLeaf(r) : r \in 1..row_num}
                \cup {HorizontalPage(r) : r \in 1..row_num},
           entries \in Corpora(1, 0) :
            InitRun(Config(row_num, leaf_col, multirows, book_line_flag, <<>>, 1,
                           entries))

SpecBands == InitBands /\ [][Next]_vars

\* band = columns x rowsPerColumn
BandSize == layout.columns * layout.rows_per_column

\* the smallest multiple of the band strictly greater than slot
NextBandStart(slot) ==
    CHOOSE m \in 1..(slot + BandSize) :
        /\ m % BandSize = 0
        /\ m > slot
        /\ \A k \in 1..(slot + BandSize) : (k % BandSize = 0 /\ k > slot) => m <= k

\* the cell on the first row of the first column of band b (bands from 0), from
\* the geometry of the canvas
FirstCellOfBand(b) ==
    Cell(BaseX(cfg.canvas, 1),
         PosY(cfg.canvas, cfg.row_num, layout.rows_per_column, cfg.row_delta_y, b, 1))

\* C23: with more than one band, in HorizontalLeaf and HorizontalPage mode
\* alike, a '^' read at slot s leaves the slot at the smallest multiple of
\* the band above s, or at capacity when that multiple is not below capacity,
\* resets lastPosition and emits no glyph; a slot-consuming character read
\* next on the same page is laid on the first row of the first column of the
\* band of that number.  With one band the '^' is laid out as a plain
\* character.
BandJumpToNextBand ==
    /\ [](/\ ev.op = "^" =>
                /\ layout.multirows_bands > 1
                /\ pcnt = Min(NextBandStart(ev.slot), layout.per_page)
                /\ last_pos = NoCell
                /\ ev.emitted = <<>>
                /\ ev.drawn = <<>>
                /\ ev.finalized = 0
          /\ (ev.ch = BandJump /\ layout.multirows_bands <= 1) =>
                /\ ev.op = "plain"
                /\ pcnt = (IF ev.slot = layout.per_page THEN 1 ELSE ev.slot + 1)
                /\ \E k \in 1..Len(ev.emitted) :
                        /\ ev.emitted[k].glyph.ch = BandJump
                        /\ ~ev.emitted[k].glyph.is_nop
                        /\ ev.emitted[k].glyph.pos = PosLeft(layout, pcnt))
    /\ [][(ev.op = "^" /\ pcnt < layout.per_page /\ ev'.op \in {"plain", "rot"}) =>
            \A k \in 1..Len(ev'.emitted) :
                ~ev'.emitted[k].glyph.is_nop =>
                    ev'.emitted[k].glyph.pos = FirstCellOfBand(pcnt \div BandSize)]_vars

(***************************************************************************)
(* The '%' marker.                                                         *)
(***************************************************************************)
\* C24: a '%' first discards rowsPerLeaf - 1 characters of the stream (all
\* that is left when the stream ends before), then finalizes the page: the
\* in-progress page is pushed exactly when it holds a glyph, the slot is 0,
\* the page-number counter and the number of the in-progress page go up by
\* one, the in-progress page holds no glyph and carries the title of the
\* chapter; lastPosition is reset, and a non-slot mark read next is emitted on
\* the new page, at the cell of slot 1.
PageBreakFinalizes ==
    /\ [][ev'.op = "%" =>
            /\ \/ Unread' = Unread - cfg.row_num
               \/ Unread' = 0 /\ Unread <= cfg.row_num + MaxItems
            /\ budget = 0 => Unread' = SatSub(Unread, cfg.row_num)
            /\ pages' = IF current_page.glyphs >= 1
                        THEN Append(pages, current_page) ELSE pages
            /\ pcnt' = 0
            /\ next_page_number' = next_page_number + 1
            /\ current_page'.number = current_page.number + 1
            /\ current_page'.number = next_page_number'
            /\ current_page'.glyphs = 0
            /\ current_page'.title = ComputeEntryTitle(cfg, idx)
            /\ last_pos' = NoCell
            /\ ev'.emitted = <<>>]_vars
    /\ [][(ev.op = "%" /\ ev'.op = "nop") =>
            /\ pages' = pages
            /\ pcnt' = 0
            /\ \A k \in 1..Len(ev'.emitted) :
                    /\ ev'.emitted[k].page = current_page.number
                    /\ ev'.emitted[k].glyph.pos = PosLeft(layout, 1)]_vars

\* a '%' of the second chapter, read past slot 0 on a page holding a glyph,
\* pushed that page and left an empty page under the second chapter's title
PageBreakFinalizesWitness ==
    /\ ev.op = "%"
    /\ idx = 2
    /\ ev.slot > 0
    /\ ev.pushed = 1
    /\ pcnt = 0
    /\ current_page.glyphs = 0
    /\ current_page.title = ComputeEntryTitle(cfg, 2)
    /\ current_page.number = pages[Len(pages)].number + 1

\* a non-slot mark read right after the '%' of a chapter of three characters:
\* it is the one glyph of the new page
PageBreakThenMarkWitness ==
    /\ ev.op = "nop"
    /\ idx = 1
    /\ cfg.row_num = 1
    /\ Len(pages) = 1
    /\ pcnt = 0
    /\ last_pos = NoCell
    /\ current_page.glyphs = 1
    /\ ev.emitted # <<>>
    /\ ev.emitted[1].page = current_page.number

(***************************************************************************)
(* Non-slot marks of the main text.                                        *)
(***************************************************************************)
\* the glyphs of non-slot marks among the glyphs a step emitted
MarkGlyphs(emitted) == {k \in 1..Len(emitted) : emitted[k].glyph.is_nop}

\* C25: a non-slot mark of the main text leaves the slot counter and the
\* page counters as they are and pushes no page; its glyph is on the
\* in-progress page at lastPosition, or at the cell of the current slot (of
\* slot 1 when the slot is 0) when no position is recorded.  When a plain
\* character fills the page and a non-slot mark follows, the mark is read in
\* the same step: its glyph is on the page of the character's glyph, at the
\* position of that glyph (at lastPosition, or at the cell of the slot, when
\* the character has no glyph), and no page is finalized after the character.
MarkNeverTakesSlot ==
    /\ [][ev'.op = "nop" =>
            /\ pcnt' = pcnt
            /\ pages' = pages
            /\ next_page_number' = next_page_number
            /\ generated_pages' = generated_pages
            /\ current_page'.number = current_page.number
            /\ ev'.finalized = 0
            /\ Unread' = Unread - 1
            /\ \A k \in 1..Len(ev'.emitted) :
                    /\ ev'.emitted[k].glyph.is_nop
                    /\ ev'.emitted[k].page = current_page.number
                    /\ ev'.emitted[k].glyph.pos =
                            IF last_pos # NoCell THEN last_pos
                            ELSE PosLeft(layout, Max(pcnt, 1))]_vars
    /\ [][(ev'.op = "plain" /\ MarkGlyphs(ev'.emitted) # {}) =>
            /\ pcnt' = layout.per_page
            /\ Unread' = Unread - 2
            /\ ev'.finalized = (IF pcnt = layout.per_page THEN 1 ELSE 0)
            /\ \A k \in MarkGlyphs(ev'.emitted) :
                    /\ ev'.emitted[k].page = current_page'.number
                    /\ ev'.emitted[k].glyph.pos =
                            IF last_pos' # NoCell THEN last_pos'
                            ELSE PosLeft(layout, layout.per_page)
                    /\ k = Len(ev'.emitted)
                    /\ k = 2 =>
                        /\ ev'.emitted[1].page = ev'.emitted[2].page
                        /\ ev'.emitted[1].glyph.pos = ev'.emitted[2].glyph.pos
                        /\ ev'.emitted[1].glyph.pos = PosLeft(layout, layout.per_page)]_vars
    /\ [](ev.op = "plain" /\ pcnt = layout.per_page /\ pc = "entry" /\ chars # <<>>
            => Head(chars) \notin cfg.text_nop)

\* a plain character filled a page of two slots or more and the non-slot mark
\* after it was emitted with it, at its position and on its page
MarkNeverTakesSlotWitness ==
    /\ ev.op = "plain"
    /\ layout.per_page >= 2
    /\ pcnt = layout.per_page
    /\ Len(ev.emitted) = 2
    /\ ev.emitted[2].glyph.is_nop
    /\ ev.emitted[2].glyph.pos = ev.emitted[1].glyph.pos
    /\ ev.emitted[2].page = ev.emitted[1].page
    /\ ev.finalized = 0

\* a non-slot mark read on a full page, after a rotated mark filled it: no
\* page was finalized
MarkOnFullPageWitness ==
    /\ ev.op = "nop"
    /\ pcnt = layout.per_page
    /\ ev.emitted # <<>>
    /\ ev.emitted[1].glyph.pos = last_pos
    /\ pages = <<>>

(***************************************************************************)
(* The bookline brackets of the main text.                                 *)
(***************************************************************************)
\* the step read a bookline bracket as a character of the main text
ReadBracket(event) ==
    /\ event.ch \in {BookOpen, BookClose}
    /\ event.op \in {"bookline", "plain", "rot", "nop"}

\* C26: a bookline bracket read in the main text sets the bookline-active
\* flag when it is the opening one and clears it when it is the closing one,
\* with bookline decoration enabled or not.  With decoration enabled the
\* bracket emits no glyph and no line and leaves the slot counter, the
\* in-progress page, the pushed pages and lastPosition as they are; with
\* decoration disabled it is laid out as the plain character it is: it takes
\* the next slot (after a finalize when the page is full) and its glyph is
\* emitted at the cell of that slot, unless the page cap stops the chapter at
\* that finalize.
BracketTogglesBookline ==
    [][ReadBracket(ev') =>
        /\ bookline_active' = (ev'.ch = BookOpen)
        /\ IF cfg.book_line_flag
           THEN /\ ev'.op = "bookline"
                /\ Unread' = Unread - 1
                /\ ev'.emitted = <<>>
                /\ ev'.drawn = <<>>
                /\ pcnt' = pcnt
                /\ current_page' = current_page
                /\ pages' = pages
                /\ next_page_number' = next_page_number
                /\ last_pos' = last_pos
           ELSE /\ ev'.op = "plain"
                /\ ev'.drawn = <<>>
                /\ ev'.finalized = (IF pcnt = layout.per_page THEN 1 ELSE 0)
                /\ pc' # "break" =>
                    /\ pcnt' = (IF pcnt = layout.per_page THEN 1 ELSE pcnt + 1)
                    /\ ev'.emitted # <<>>
                    /\ ev'.emitted[1].glyph.ch = ev'.ch
                    /\ ~ev'.emitted[1].glyph.is_nop
                    /\ ev'.emitted[1].glyph.pos = PosLeft(layout, pcnt')
                    /\ ev'.emitted[1].page = current_page'.number
                    /\ current_page'.glyphs =
                            (IF pcnt = layout.per_page THEN 0 ELSE current_page.glyphs)
                                + Len(ev'.emitted)
                    /\ last_pos' = PosLeft(layout, pcnt')]_vars

\* an opening bracket read with decoration disabled, past slot 0: the flag is
\* set and the bracket took a slot and got a glyph
BracketTogglesBooklineWitness ==
    /\ ev.op = "plain"
    /\ ev.ch = BookOpen
    /\ ~cfg.book_line_flag
    /\ bookline_active
    /\ ev.slot > 0
    /\ pcnt = ev.slot + 1
    /\ Len(ev.emitted) = 1

\* a closing bracket read with decoration enabled, past slot 0: the flag is
\* clear and the slot is where it was
BracketSilentWitness ==
    /\ ev.op = "bookline"
    /\ ev.ch = BookClose
    /\ cfg.book_line_flag
    /\ ~bookline_active
    /\ ev.slot > 0
    /\ pcnt = ev.slot
    /\ current_page.glyphs > 0

(***************************************************************************)
(* Bookline lines.  SpecBookline runs build_plan over one or two chapters  *)
(* whose characters are plain characters, the space, marks of both classes *)
(* and the bookline brackets, with bookline decoration enabled and         *)
(* disabled.                                                               *)
(***************************************************************************)
BooklineAlphabet == {"a", " ", "n", "r", "u", BookOpen, BookClose}

InitBookline ==
    \E row_num \in 1..MaxRowNum, leaf_col \in 1..MaxColumns,
       book_line_flag \in BOOLEAN, to \in 1..MaxChapter :
        \E entries \in Corpora(to, 0) :
            InitRun([Config(row_num, leaf_col, Disabled, book_line_flag, <<>>, to,
                            entries)
                        EXCEPT !.alphabet = BooklineAlphabet])

NextBookline ==
    \/ ChapterStart
    \/ BooklineBracket
    \/ RotChar
    \/ NopChar
    \/ PlainChar
    \/ EntryReturn
    \/ Finish

SpecBookline == InitBookline /\ [][NextBookline]_vars

\* the glyphs of slot-consuming characters among the glyphs a step emitted
SlotGlyphs(emitted) == {k \in 1..Len(emitted) : ~emitted[k].glyph.is_nop}

\* C27: a step that lays a plain or rotated character of the main text and
\* emits its glyph adds exactly one wavy line, on the page of the glyph and at
\* its cell, when the bookline-active flag is set, bookline decoration is
\* enabled and the character is not a space, and no line otherwise; no line
\* is added when the character has no glyph, for a non-slot mark, for a
\* bookline bracket, at a chapter boundary or at the end of the run.  The
\* line count of the in-progress page grows by the lines the step added.
LineIffBooklineActive ==
    /\ [](/\ ev.op \in {"plain", "rot"} =>
                IF /\ SlotGlyphs(ev.emitted) # {}
                   /\ bookline_active
                   /\ cfg.book_line_flag
                   /\ ev.ch # " "
                THEN /\ Len(ev.drawn) = 1
                     /\ ev.drawn[1].line.wavy
                     /\ \A k \in SlotGlyphs(ev.emitted) :
                            /\ ev.drawn[1].line.pos = ev.emitted[k].glyph.pos
                            /\ ev.drawn[1].page = ev.emitted[k].page
                            /\ ev.drawn[1].page = current_page.number
                ELSE ev.drawn = <<>>
          /\ Cardinality(SlotGlyphs(ev.emitted)) <= 1
          /\ ev.op \notin {"plain", "rot"} => ev.drawn = <<>>)
    /\ [][ev'.op \in {"plain", "rot", "nop", "bookline"} =>
            current_page'.lines = current_page.lines + Len(ev'.drawn)]_vars

\* a rotated mark laid under an active bookline on a page that already holds a
\* line: the page has one line more
LineIffBooklineActiveWitness ==
    /\ ev.op = "rot"
    /\ bookline_active
    /\ cfg.book_line_flag
    /\ Len(ev.drawn) = 1
    /\ Len(ev.emitted) = 1
    /\ current_page.lines = 2

\* a space laid under an active bookline: a glyph and no line
SpaceWithoutLineWitness ==
    /\ ev.op = "plain"
    /\ ev.ch = " "
    /\ bookline_active
    /\ cfg.book_line_flag
    /\ Len(ev.emitted) = 1
    /\ ev.drawn = <<>>

\* C28: the bookline-active flag is inactive when the processing of a chapter
\* starts, whatever the chapter before it left open.
BooklineInactiveAtChapterStart ==
    (ev.op = "chapter" /\ pc = "entry") => ~bookline_active

(***************************************************************************)
(* The packing steps of render_comments, read off the log of the block.    *)
(***************************************************************************)
\* the packing steps of a log
PackSteps(log) == {k \in 1..Len(log) : log[k].kind = "pack"}

\* the characters a packing step placed on one side
PlacedOn(e, side) == {i \in 1..Len(e.placed) : e.placed[i].side = side}

\* C29: in a packing step that takes p slot-pairs from slot s, the i-th
\* slot-consuming character is at index s+i of the annotation-right table when
\* i <= p and at index s+(i-p) of the main table when p < i <= 2p; the right
\* cells are one above the other, top to bottom; a step of n characters puts
\* ceil(n/2) of them on the right, and more on the right than on the left only
\* when it is the last packing step of the block.
PackRightThenLeft ==
    ev.op = "note" =>
        \A k \in PackSteps(ev.log) :
            LET e == ev.log[k]
                p == e.pairs
                n == Len(e.placed)
            IN  /\ 1 <= n
                /\ n <= 2 * p
                /\ \A i \in 1..n :
                        IF i <= p
                        THEN /\ e.placed[i].side = "right"
                             /\ e.placed[i].index = e.slot + i
                        ELSE /\ e.placed[i].side = "left"
                             /\ e.placed[i].index = e.slot + (i - p)
                /\ \A i \in 1..(p - 1) :
                        /\ PosRight(layout, e.slot + i).x
                                = PosRight(layout, e.slot + i + 1).x
                        /\ PosRight(layout, e.slot + i).y
                                > PosRight(layout, e.slot + i + 1).y
                /\ Cardinality(PlacedOn(e, "right")) = CeilHalf(n)
                /\ Cardinality(PlacedOn(e, "left")) = n \div 2
                /\ n % 2 = 1 => \A m \in PackSteps(ev.log) : m <= k

\* a last step of three characters over two slot-pairs: two on the right, one
\* on the left
PackRightThenLeftWitness ==
    /\ ev.op = "note"
    /\ \E k \in PackSteps(ev.log) :
            /\ ev.log[k].pairs = 2
            /\ ev.log[k].slot > 0
            /\ Len(ev.log[k].placed) = 3
            /\ ev.log[k].placed[2].side = "right"
            /\ ev.log[k].placed[3].side = "left"
            /\ ev.log[k].placed[3].index = ev.log[k].slot + 1

\* a step that is not the last of its block: as many on the left as on the
\* right
PackEvenStepWitness ==
    /\ ev.op = "note"
    /\ \E k \in PackSteps(ev.log) : \E m \in PackSteps(ev.log) :
            /\ k < m
            /\ Len(ev.log[k].placed) = 2 * ev.log[k].pairs
            /\ Len(ev.log[m].placed) = 1

\* the packing step after step k, 0 when k is the last one
NextPack(log, k) ==
    IF \E m \in PackSteps(log) : m > k
    THEN CHOOSE m \in PackSteps(log) :
            m > k /\ \A q \in PackSteps(log) : q > k => m <= q
    ELSE 0

\* C30: a packing step takes at least one slot-pair and at most as many as the
\* column of slot+1 has rows left, a number in 1..rows_per_column at every
\* slot under the capacity; the cells slot+1..slot+p of either table are one
\* above the other in one column; the packing step after it starts at the top
\* of the next column of the same page, or at slot 0 after a page finalize.
PackStaysInColumn ==
    /\ \A s \in 0..(layout.per_page - 1) :
            SlotsInColumn(layout, s) \in 1..layout.rows_per_column
    /\ ev.op = "note" =>
        \A k \in PackSteps(ev.log) :
            LET e == ev.log[k]
                p == e.pairs
                rpc == layout.rows_per_column
                m == NextPack(ev.log, k)
            IN  /\ e.slot < layout.per_page
                /\ 1 <= p
                /\ p <= rpc - (e.slot % rpc)
                /\ e.slot \div rpc = (e.slot + p - 1) \div rpc
                /\ \A i \in 1..p : \A j \in 1..p :
                        /\ PosLeft(layout, e.slot + i).x = PosLeft(layout, e.slot + j).x
                        /\ PosRight(layout, e.slot + i).x
                                = PosRight(layout, e.slot + j).x
                        /\ i < j => PosLeft(layout, e.slot + i).y
                                        > PosLeft(layout, e.slot + j).y
                /\ m # 0 =>
                        /\ ev.log[m].slot % rpc = 0
                        /\ \/ m = k + 1 /\ ev.log[m].slot = e.slot + p
                           \/ /\ m = k + 2
                              /\ ev.log[k + 1].kind = "finalize"
                              /\ e.slot + p = layout.per_page
                              /\ ev.log[m].slot = 0

\* a block read in the middle of a column of two rows: one slot-pair, then the
\* rest at the top of the next column
PackStaysInColumnWitness ==
    /\ ev.op = "note"
    /\ layout.rows_per_column = 2
    /\ \E k \in PackSteps(ev.log) :
            /\ ev.log[k].slot % 2 = 1
            /\ ev.log[k].pairs = 1
            /\ k + 1 \in PackSteps(ev.log)
            /\ ev.log[k + 1].slot = ev.log[k].slot + 1

\* a block that fills the page and goes on at slot 0 of the next page
PackOverPageWitness ==
    /\ ev.op = "note"
    /\ \E k \in PackSteps(ev.log) :
            /\ k + 2 \in PackSteps(ev.log)
            /\ ev.log[k + 1].kind = "finalize"
            /\ ev.log[k + 2].slot = 0

(***************************************************************************)
(* Annotation blocks of every kind of character.  SpecNotes runs build_plan*)
(* over one chapter whose annotation blocks hold plain characters, marks   *)
(* of both classes and the opening bookline bracket.                       *)
(***************************************************************************)
NoteAlphabet == {"a", "n", "r", BookOpen}

InitNotes ==
    \E row_num \in 1..MaxRowNum, leaf_col \in 1..MaxColumns,
       book_line_flag \in BOOLEAN,
       test_pages \in {<<>>, <<1>>} :
        \E multirows \in {Disabled} \cup {HorizontalLeaf(r) : r \in 2..row_num} :
            \E entries \in Corpora(1, 0) :
                InitRun([Config(row_num, leaf_col, multirows, book_line_flag,
                                test_pages, 1, entries)
                            EXCEPT !.note_alphabet = NoteAlphabet])

SpecNotes == InitNotes /\ [][Next]_vars

\* the slot-consuming characters of an annotation queue, in order
RECURSIVE ConsumingChars(_, _)
ConsumingChars(c, queue) ==
    IF queue = <<>> THEN <<>>
    ELSE (IF CommentCharConsumesSlot(c, Head(queue)) THEN <<Head(queue)>> ELSE <<>>)
            \o ConsumingChars(c, Tail(queue))

\* the placements of a log in the order they were made, each with the number
\* of page finalizes that came before it in the block
RECURSIVE PlacedInOrder(_, _, _)
PlacedInOrder(log, k, breaks) ==
    IF k > Len(log) THEN <<>>
    ELSE IF log[k].kind = "finalize" THEN PlacedInOrder(log, k + 1, breaks + 1)
    ELSE [i \in 1..Len(log[k].placed) |->
                [ch |-> log[k].placed[i].ch, index |-> log[k].placed[i].index,
                 side |-> log[k].placed[i].side, page |-> breaks]]
            \o PlacedInOrder(log, k + 1, breaks)

\* C31: every slot-consuming character of an annotation block is assigned
\* exactly one grid position, in input order, no two of them the same cell of
\* the same page, whatever the slot the block is read at and however many
\* column ends and page finalizes split it; the queue is empty when
\* render_comments returns.
AnnotationKeepsContent ==
    (ev.op = "note" /\ ev.queue # <<>>) =>
        LET placed == PlacedInOrder(ev.log, 1, 0)
            wanted == ConsumingChars(cfg, ev.queue)
        IN  /\ Len(placed) = Len(wanted)
            /\ \A i \in 1..Len(wanted) : placed[i].ch = wanted[i]
            /\ \A i \in 1..Len(placed) : \A j \in 1..Len(placed) :
                    (i # j) =>
                        <<placed[i].page, placed[i].side, placed[i].index>>
                            # <<placed[j].page, placed[j].side, placed[j].index>>
            /\ ev.log # <<>>
            /\ ev.log[Len(ev.log)].left = 0

\* a block of three slot-consuming characters read past slot 0 and split by a
\* page finalize
AnnotationKeepsContentWitness ==
    /\ ev.op = "note"
    /\ ev.slot > 0
    /\ Len(ConsumingChars(cfg, ev.queue)) = 3
    /\ Len(PlacedInOrder(ev.log, 1, 0)) = 3
    /\ \E k \in 2..(Len(ev.log) - 1) :
            /\ ev.log[k].kind = "finalize"
            /\ ev.log[k - 1].kind = "pack"
            /\ ev.log[k + 1].kind = "pack"

\* a block of a bracket, a mark and a rotated mark with decoration enabled:
\* one placement
AnnotationMixedWitness ==
    /\ ev.op = "note"
    /\ cfg.book_line_flag
    /\ ev.queue = <<BookOpen, "r", "n">>
    /\ Len(PlacedInOrder(ev.log, 1, 0)) = 1

(***************************************************************************)
(* Glyph resolution.  SpecGlyph draws the glyph sets of the font slots, a  *)
(* text stack, the variant-fallback flag and a character, and builds the   *)
(* glyph of the character: ev.ch is the character asked for, ev.emitted    *)
(* holds the GlyphSpec when there is one.                                  *)
(***************************************************************************)
\* the characters resolved: "j" and "f" convert into each other, "v" converts
\* to "f" (Traditional) and to "j" (Simplified)
GlyphChars == {"j", "f", "v"}

InitGlyph ==
    \E slots \in [1..MaxSlots -> SUBSET {"j", "f", Placeholder}],
       stack \in FontStacks, try_st \in BOOLEAN, ch \in GlyphChars :
        LET c == Config(1, 1, Disabled, FALSE, <<>>, 1, OneChapter(<<>>))
        IN  /\ cfg = [c EXCEPT !.slots = slots, !.text_stack = stack,
                               !.try_st = try_st]
            /\ layout = LayoutBuild(c.row_num, c.row_delta_y, c.canvas, c.multirows)
            /\ pc = "font"
            /\ idx = 1
            /\ chars = <<ch>>
            /\ budget = 0
            /\ pcnt = 0
            /\ next_page_number = 1
            /\ generated_pages = 0
            /\ bookline_active = FALSE
            /\ last_pos = NoCell
            /\ current_page = PagePlan(1, <<>>, 0, 0)
            /\ pages = <<>>
            /\ outlines = <<>>
            /\ result = NoResult
            /\ ev = NoEvent

\* one call of LayoutEngine::build_text_glyph for a main-text character at the
\* first cell of the grid
BuildTextGlyphStep ==
    /\ pc = "font"
    /\ LET g == BuildTextGlyph(cfg, PosLeft(layout, 1), chars[1], FALSE, FALSE, FALSE)
       IN  /\ result' = [ok |-> g # NoGlyph, err |-> None, at |-> 0]
           /\ ev' = [Event("build_text_glyph", chars[1], <<>>, <<>>) EXCEPT
                        !.emitted = IF g = NoGlyph THEN <<>>
                                    ELSE <<[glyph |-> g, page |-> 1]>>]
    /\ pc' = "glyph"
    /\ UNCHANGED <<cfg, layout, idx, chars, budget, pcnt, next_page_number,
                   generated_pages, bookline_active, last_pos, current_page,
                   pages, outlines>>

SpecGlyph == InitGlyph /\ [][BuildTextGlyphStep]_vars

\* the first slot of the text stack, in stack order, whose font holds ch
FirstHit(ch) ==
    LET hits == StackHits(ch)
    IN  cfg.text_stack[CHOOSE k \in hits : \A j \in hits : k <= j]

\* the candidates of the resolution of ch, in the order they are tried
Candidates(ch) ==
    <<ch>>
    \o (IF cfg.try_st THEN <<Zhconv(ch, "ZhHant"), Zhconv(ch, "ZhHans")>> ELSE <<>>)
    \o <<Placeholder>>

\* C32: the glyph of a character is that of the first of these that some slot
\* of the stack holds: the character, then (variant fallback enabled only) its
\* Traditional conversion, then its Simplified conversion, then the
\* placeholder; the glyph carries that character and the first slot of the
\* stack holding it; there is no glyph when none is held.
GlyphResolutionOrder ==
    pc = "glyph" =>
        LET cands == Candidates(ev.ch)
            found == {k \in 1..Len(cands) : StackHits(cands[k]) # {}}
            first == CHOOSE k \in found : \A j \in found : k <= j
        IN  IF found = {} THEN ev.emitted = <<>>
            ELSE /\ Len(ev.emitted) = 1
                 /\ ev.emitted[1].glyph.ch = cands[first]
                 /\ ev.emitted[1].glyph.font_idx = FirstHit(cands[first])
                 /\ ~cfg.try_st => ev.emitted[1].glyph.ch \in {ev.ch, Placeholder}

\* "v" with both of its conversions in the fonts and variant fallback enabled:
\* the Traditional one is drawn
GlyphResolutionOrderWitness ==
    /\ pc = "glyph"
    /\ ev.ch = "v"
    /\ cfg.try_st
    /\ StackHits("f") # {}
    /\ StackHits("j") # {}
    /\ Len(ev.emitted) = 1
    /\ ev.emitted[1].glyph.ch = "f"

\* "j" with only its Traditional form and the placeholder in the fonts and
\* variant fallback disabled: the placeholder is drawn
GlyphNoConversionWitness ==
    /\ pc = "glyph"
    /\ ev.ch = "j"
    /\ ~cfg.try_st
    /\ StackHits("j") = {}
    /\ StackHits("f") # {}
    /\ Len(ev.emitted) = 1
    /\ ev.emitted[1].glyph.ch = Placeholder

(***************************************************************************)
(* Characters no font holds.  SpecMissing runs build_plan over one chapter *)
(* of plain characters, rotated marks and non-slot marks, one of each kind *)
(* held by no font, with no placeholder glyph in any font either.          *)
(***************************************************************************)
\* "u" (plain), "w" (rotated mark) and "m" (non-slot mark) are in no font
MissingAlphabet == {"a", "u", "w", "n", "m", BookOpen}

InitMissing ==
    \E row_num \in 1..MaxRowNum, leaf_col \in 1..MaxColumns,
       book_line_flag \in BOOLEAN :
        \E entries \in Corpora(1, 0) :
            InitRun([Config(row_num, leaf_col, Disabled, book_line_flag, <<>>, 1,
                            entries)
                        EXCEPT !.alphabet = MissingAlphabet,
                               !.text_rotate = {"r", "w"},
                               !.text_nop = {"n", "m"}])

SpecMissing == InitMissing /\ [][NextBookline]_vars

\* the character the step read resolves to no glyph
Unresolved(event) ==
    BuildTextGlyph(cfg, PosLeft(layout, 1), event.ch, FALSE,
                   event.op = "nop", event.op = "rot") = NoGlyph

\* C33: a character that neither the fonts nor the placeholder resolve is
\* dropped without error: the step emits no glyph and no line for it and the
\* run goes on; a slot-consuming character still advances the slot by one,
\* from 0 when the page was full and has been finalized, and leaves last_pos
\* as the finalize, if any, left it; a non-slot mark changes nothing.
UnresolvedIsDropped ==
    [][/\ (ev'.op \in {"plain", "rot"} /\ Unresolved(ev')) =>
            /\ pc' = "entry"
            /\ result' = result
            /\ SlotGlyphs(ev'.emitted) = {}
            /\ ev'.drawn = <<>>
            /\ current_page'.lines = current_page.lines
            /\ pcnt' = (IF pcnt = layout.per_page THEN 0 ELSE pcnt) + 1
            /\ last_pos' = (IF pcnt = layout.per_page THEN NoCell ELSE last_pos)
            /\ current_page'.glyphs =
                    (IF pcnt = layout.per_page THEN 0 ELSE current_page.glyphs)
                        + Len(ev'.emitted)
       /\ (ev'.op = "nop" /\ Unresolved(ev')) =>
            /\ pc' = "entry"
            /\ ev'.emitted = <<>>
            /\ ev'.drawn = <<>>
            /\ UNCHANGED <<pcnt, last_pos, current_page, pages, result>>
      ]_vars

\* an unresolved rotated mark read under an active bookline after a laid
\* character: the slot moved on, last_pos stayed at the cell of the character
UnresolvedIsDroppedWitness ==
    /\ ev.op = "rot"
    /\ ev.ch = "w"
    /\ bookline_active
    /\ cfg.book_line_flag
    /\ pcnt = 2
    /\ last_pos = PosLeft(layout, 1)
    /\ current_page.glyphs = 1
    /\ ev.emitted = <<>>

\* an unresolved plain character read on a full page: the page was finalized
\* and the slot is 1
UnresolvedOnFullPageWitness ==
    /\ ev.op = "plain"
    /\ ev.ch = "u"
    /\ ev.finalized = 1
    /\ pcnt = 1
    /\ last_pos = NoCell
    /\ current_page.glyphs = 0

(***************************************************************************)
(* The text modes.  SpecModes draws a line and the tokens of the           *)
(* collapse-to-period mode and applies apply_text_modes to the line.       *)
(* ev.queue holds the line before the call, chars the line after it.       *)
(***************************************************************************)
MaxModeLen == 4        \* characters of the line the text modes are applied to

MaxTokens == 2         \* tokens of the collapse-to-period list

\* the tokens a list can hold: single characters, a doubled character, a pair
\* of characters and a token that holds the terminal mark; parse_token_list
\* keeps no empty token
ModeTokens == {<<",">>, <<"b">>, <<",", ",">>, <<"a", "b">>, <<".", "a">>}

ModeLines == UNION {[1..n -> {"a", "b", ",", "."}] : n \in 0..MaxModeLen}

InitModes ==
    \E line \in ModeLines,
       tokens \in UNION {[1..n -> ModeTokens] : n \in 0..MaxTokens} :
        LET c == Config(1, 1, Disabled, FALSE, <<>>, 1, OneChapter(<<>>))
        IN  /\ cfg = [c EXCEPT !.text_modes.only_period = TRUE,
                               !.text_modes.only_period_tokens = tokens,
                               !.source = line]
            /\ layout = LayoutBuild(c.row_num, c.row_delta_y, c.canvas, c.multirows)
            /\ pc = "modes"
            /\ idx = 0
            /\ chars = line
            /\ budget = 0
            /\ pcnt = 0
            /\ next_page_number = 1
            /\ generated_pages = 0
            /\ bookline_active = FALSE
            /\ last_pos = NoCell
            /\ current_page = PagePlan(1, <<>>, 0, 0)
            /\ pages = <<>>
            /\ outlines = <<>>
            /\ result = NoResult
            /\ ev = NoEvent

\* one call of apply_text_modes on the line
ApplyModesStep ==
    /\ pc = "modes"
    /\ chars' = ApplyTextModes(chars, cfg.text_modes)
    /\ pc' = "moded"
    /\ ev' = Event("apply_text_modes", None, chars, <<>>)
    /\ UNCHANGED <<cfg, layout, idx, budget, pcnt, next_page_number,
                   generated_pages, bookline_active, last_pos, current_page,
                   pages, outlines, result>>

SpecModes == InitModes /\ [][ApplyModesStep]_vars

\* token occurs in text
Occurs(token, text) ==
    \E i \in 1..(Len(text) - Len(token) + 1) :
        SubSeq(text, i, i + Len(token) - 1) = token

\* the places of the characters of text other than the terminal mark
OtherPlaces(text) == {i \in 1..Len(text) : text[i] # "."}

\* the place of the k-th character of text other than the terminal mark
OtherPlace(text, k) ==
    CHOOSE i \in OtherPlaces(text) :
        Cardinality({j \in OtherPlaces(text) : j <= i}) = k

\* a terminal mark stands right after place i of text
MarkAfter(text, i) == i < Len(text) /\ text[i + 1] = "."

\* C34: in collapse-to-period mode the line apply_text_modes leaves holds no
\* two adjacent terminal marks and no terminal mark at its head; its other
\* characters are those of the line with every token replaced by the mark, in
\* the same order, and a mark follows one of them exactly when one followed
\* it there; no token that is free of the mark occurs in it.  For tokens of
\* one character the other characters are the characters of the line that
\* are neither a token nor the mark.
CollapseToPeriod ==
    pc = "moded" =>
        LET tokens == cfg.text_modes.only_period_tokens
            replaced == ReplaceTokens(ev.queue, tokens, <<".">>, FALSE)
            singles == {tokens[k][1] : k \in {j \in 1..Len(tokens) :
                                                Len(tokens[j]) = 1}}
        IN  /\ \A k \in 1..Len(tokens) :
                    (\A i \in 1..Len(tokens[k]) : tokens[k][i] # ".")
                        => ~Occurs(tokens[k], chars)
            /\ \A i \in 1..(Len(chars) - 1) : ~(chars[i] = "." /\ chars[i + 1] = ".")
            /\ chars # <<>> => chars[1] # "."
            /\ Without(chars, {"."}) = Without(replaced, {"."})
            /\ \A k \in 1..Cardinality(OtherPlaces(chars)) :
                    MarkAfter(chars, OtherPlace(chars, k))
                        <=> MarkAfter(replaced, OtherPlace(replaced, k))
            /\ (\A k \in 1..Len(tokens) : Len(tokens[k]) = 1) =>
                    Without(chars, {"."}) = Without(ev.queue, singles \cup {"."})

\* "a,,b" with the token ",": one mark between a and b
CollapseToPeriodWitness ==
    /\ pc = "moded"
    /\ ev.queue = <<"a", ",", ",", "b">>
    /\ cfg.text_modes.only_period_tokens = <<<<",">>>>
    /\ chars = <<"a", ".", "b">>

\* a line of tokens and marks only collapses to the empty line
CollapseToNothingWitness ==
    /\ pc = "moded"
    /\ ev.queue = <<",", ",", "b", ".">>
    /\ cfg.text_modes.only_period_tokens = <<<<",">>, <<"b">>>>
    /\ chars = <<>>

(***************************************************************************)
(* The slot counter between page finalizes.                                *)
(***************************************************************************)
\* C35: a step that finalizes no page and pushes none leaves the slot counter
\* where it was or moves it forward.
SlotNeverDecreases ==
    [][(ev'.finalized = 0 /\ ev'.pushed = 0) => pcnt' >= pcnt]_vars


\* C36: after a step of the character loop that finalized a page, the
\* in-progress page holds no line but those the step drew on it after the
\* finalize.
FinalizeClearsLines ==
    (ev.op \in {"%", "plain", "rot"} /\ ev.finalized > 0) =>
        current_page.lines
            = Cardinality({k \in 1..Len(ev.drawn) :
                                ev.drawn[k].page = current_page.number})


\* C37: the plan build_plan returns under a page cap of N holds at most N
\* pages.
PlanWithinCap ==
    (Returned /\ cfg.test_pages # <<>>) => Len(pages) <= cfg.test_pages[1]


\* C38: when the processing of a chapter starts the slot counter is 0.
ChapterStartsAtSlotZero ==
    (ev.op = "chapter" /\ pc = "entry") => pcnt = 0


(***************************************************************************)
(* The titles of a range of chapters.  SpecPreface runs build_plan over a  *)
(* range of ordinals that starts at 0 or 1, on a corpus with or without    *)
(* the prologue entry 0; the outline entries keep the title of every       *)
(* chapter of the range.                                                   *)
(***************************************************************************)
InitPreface ==
    \E row_num \in 1..MaxRowNum, book_line_flag \in BOOLEAN, prologue \in BOOLEAN,
       from \in 0..1 :
        \E to \in {t \in 1..MaxChapter : from <= t} :
            LET entries == [i \in 0..MaxChapter |->
                                IF i = 0 /\ ~prologue THEN NoEntry
                                ELSE IF i <= to THEN AnyEntry(1)
                                ELSE NoEntry]
            IN  InitRun([Config(row_num, 1, Disabled, book_line_flag, <<>>, to,
                                entries)
                            EXCEPT !.alphabet = {"a", "n", "r", BookOpen},
                                   !.from = from,
                                   !.has_text000 = prologue])

SpecPreface == InitPreface /\ [][NextBookline]_vars

\* the title of the preface
PrefaceTitle == cfg.title \o <<"preface">>

\* C39: no two chapters of the range are given the preface title.
PrefaceOnlyOnce ==
    \A i \in 1..Len(outlines) : \A j \in 1..Len(outlines) :
        (i # j /\ outlines[i].title = PrefaceTitle)
            => outlines[j].title # PrefaceTitle

====
